---- MODULE Spec2Model ----
(***************************************************************************)
(* LifeTracer backend: the result cache (file and Redis backends), the     *)
(* per-key request coalescing of BiographyService.get_biography, and the   *)
(* operations around them.                                                 *)
(*                                                                         *)
(* Time is an integer number of seconds.  A coroutine runs without         *)
(* interruption between two suspension points (an await that really        *)
(* suspends: a thread-pool file operation of aiofiles, a network round     *)
(* trip); every action below is one such uninterrupted stretch.            *)
(***************************************************************************)
EXTENDS Integers, Sequences, FiniteSets, TLC

\* ------------------------------------------------------------------ bounds
NumProcs == 3   \* coroutines (get_biography calls, or cache clients)
MaxTicks == 2   \* how often the clock advances in one behaviour

Procs == 1..NumProcs
Keys == {"k1", "k2"}
Values == {1, 2}
Backends == {"file", "redis"}

\* ------------------------------------------------------------ conventions
\* Python None for the expire argument and for the stored expire_time.
NoTTL == -1
NoExpire == -1
\* The expire arguments tried: None, 0 and positive numbers of seconds.
TTLs == {NoTTL, 0, 1}
\* expire=3600*24 of get_biography's cache.set
BiographyTTL == 3600 * 24

\* What a cache file / Redis key holds.
Absent == [t |-> "absent"]
Corrupt == [t |-> "corrupt"]      \* not parseable as JSON (empty, partial, garbage)
Entry(d, e) == [t |-> "entry", data |-> d, expire |-> e]

\* What cache.get returns.
Miss == [t |-> "miss"]            \* None
Hit(d) == [t |-> "hit", data |-> d]

VARIABLES
    backend,   \* which cache manager the factory returned
    now,       \* datetime.now() / the Redis server clock
    ticks,     \* number of clock advances so far
    store,     \* key -> contents of its cache file / Redis key
    proc,      \* coroutine -> its position and locals
    lockOf,    \* BiographyService._request_locks: key -> lock instance (0: none)
    lk,        \* lock instance -> [holder, waiters] (asyncio.Lock)
    nlocks,    \* lock instances created so far
    nfetch,    \* key -> pipeline invocations started so far (history)
    last,      \* the cache operation that returned last (history)
    model,     \* key -> the last completed set call (history)
    ip_requests,  \* RateLimiterMiddleware.ip_requests: ip -> list of timestamps
    last_cleanup, \* RateLimiterMiddleware.last_cleanup
    reqs,      \* HTTP request -> where it is in the middleware stack (and history)
    response,  \* the HTTP response sent last
    environ,   \* os.environ: CACHE_TYPE, REDIS_URL (and whether redis imports)
    cache_manager, \* cache_factory._cache_manager
    ninst,     \* cache managers constructed so far (history)
    got,       \* what the get_cache_manager calls returned, in order (history)
    pipeIn,    \* the article text, the model collaborator and the processor
    pipeOut    \* what the extraction strategies returned on it (history)

cacheVars == <<backend, ticks, store, proc, lockOf, lk, nlocks, nfetch, last, model>>
rateVars == <<ip_requests, last_cleanup, reqs, response>>
factoryVars == <<environ, cache_manager, ninst, got>>
vars == <<backend, now, ticks, store, proc, lockOf, lk, nlocks, nfetch, last, model,
          ip_requests, last_cleanup, reqs, response,
          environ, cache_manager, ninst, got, pipeIn, pipeOut>>
pipeVars == <<pipeIn, pipeOut>>

\* ------------------------------------------------------------ rate limiter
\* requests_per_minute, window_size and cleanup_interval, scaled down
RequestsPerMinute == 2
WindowSize == 2
CleanupInterval == 3
NumReqs == 4
MaxClock == 4
Reqs == 1..NumReqs
Clients == {"a", "b"}

\* self.ip_requests = {}
NoRecords == [ip \in {} |-> <<>>]

\* [ts for ts in timestamps if ts > cutoff_time]
ValidTimestamps(timestamps, cutoff_time) ==
    SelectSeq(timestamps, LAMBDA ts : ts > cutoff_time)

\* _cleanup_expired_records deleting every record that holds an expired
\* timestamp
CleanupExpiredRecordsEager(ipr, lc, current_time) ==
    IF current_time - lc < CleanupInterval THEN [ipr |-> ipr, lc |-> lc]
    ELSE LET cutoff_time == current_time - WindowSize
             keep == {ip \in DOMAIN ipr : ValidTimestamps(ipr[ip], cutoff_time) = ipr[ip]}
         IN [ipr |-> [ip \in keep |-> ipr[ip]], lc |-> current_time]

\* RateLimiterMiddleware._cleanup_expired_records at current_time: the records
\* and last_cleanup afterwards
CleanupExpiredRecords(ipr, lc, current_time) ==
    IF current_time - lc < CleanupInterval THEN [ipr |-> ipr, lc |-> lc]
    ELSE LET cutoff_time == current_time - WindowSize
             keep == {ip \in DOMAIN ipr : ValidTimestamps(ipr[ip], cutoff_time) # <<>>}
         IN [ipr |-> [ip \in keep |-> ValidTimestamps(ipr[ip], cutoff_time)],
             lc |-> current_time]

\* Variant of IsRateLimited: a rejected request takes the place of the oldest
\* one counted.
IsRateLimitedSliding(ipr, ip, current_time) ==
    LET old == IF ip \in DOMAIN ipr THEN ipr[ip] ELSE <<>>
        valid_requests == ValidTimestamps(old, current_time - WindowSize)
        current_requests == Len(valid_requests)
        is_limited == current_requests >= RequestsPerMinute
        new == IF is_limited THEN Append(Tail(valid_requests), current_time)
               ELSE Append(valid_requests, current_time)
    IN [ipr |-> [c \in DOMAIN ipr \cup {ip} |-> IF c = ip THEN new ELSE ipr[c]],
        is_limited |-> is_limited,
        remaining |-> 0]

\* Variants of IsRateLimited: one that admits a request when the window holds
\* exactly the limit, one that records a request it rejects.
IsRateLimitedOver(ipr, ip, current_time) ==
    LET old == IF ip \in DOMAIN ipr THEN ipr[ip] ELSE <<>>
        valid_requests == ValidTimestamps(old, current_time - WindowSize)
        current_requests == Len(valid_requests)
        is_limited == current_requests > RequestsPerMinute
        new == IF is_limited THEN valid_requests ELSE Append(valid_requests, current_time)
    IN [ipr |-> [c \in DOMAIN ipr \cup {ip} |-> IF c = ip THEN new ELSE ipr[c]],
        is_limited |-> is_limited,
        remaining |-> 0]
IsRateLimitedRecording(ipr, ip, current_time) ==
    LET old == IF ip \in DOMAIN ipr THEN ipr[ip] ELSE <<>>
        valid_requests == ValidTimestamps(old, current_time - WindowSize)
        current_requests == Len(valid_requests)
        is_limited == current_requests >= RequestsPerMinute
        new == Append(valid_requests, current_time)
    IN [ipr |-> [c \in DOMAIN ipr \cup {ip} |-> IF c = ip THEN new ELSE ipr[c]],
        is_limited |-> is_limited,
        remaining |-> 0]

\* max(0, a)
Max0(a) == IF a > 0 THEN a ELSE 0

\* RateLimiterMiddleware._is_rate_limited(ip) at current_time: the records
\* afterwards, is_limited and remaining_requests
IsRateLimited(ipr, ip, current_time) ==
    LET old == IF ip \in DOMAIN ipr THEN ipr[ip] ELSE <<>>
        valid_requests == ValidTimestamps(old, current_time - WindowSize)
        current_requests == Len(valid_requests)
        remaining_requests == Max0(RequestsPerMinute - current_requests)
        is_limited == current_requests >= RequestsPerMinute
        new == IF is_limited THEN valid_requests ELSE Append(valid_requests, current_time)
    IN [ipr |-> [c \in DOMAIN ipr \cup {ip} |-> IF c = ip THEN new ELSE ipr[c]],
        is_limited |-> is_limited,
        remaining |-> IF is_limited THEN remaining_requests ELSE remaining_requests - 1]

\* RateLimiterMiddleware._add_rate_limit_headers
NoHeaders == [limit |-> 0 - 1]
RateLimitHeaders(remaining_requests, t) ==
    [limit |-> RequestsPerMinute, remaining |-> remaining_requests,
     reset |-> t + WindowSize, window |-> WindowSize]

\* An HTTP request: where it is, and the history of what ran for it.
NewReq ==
    [st |-> "new", ip |-> "-", name |-> "-", at |-> 0, admitted |-> FALSE,
     remaining |-> 0, validated |-> FALSE, checked |-> FALSE, handled |-> FALSE]
NoResponse == [req |-> 0, status |-> 0, headers |-> NoHeaders, body |-> "-"]
Response(i, status, headers, body) ==
    [req |-> i, status |-> status, headers |-> headers, body |-> body]

\* ------------------------------------------------------ file cache backend
\* os.path.exists(cache_path)
FileExists(st, k) == st[k].t # "absent"

\* json.loads(content) succeeds
JsonOk(c) == c.t = "entry"

\* expire_time and datetime.now() > expire_datetime
Expired(c, t) == c.expire # NoExpire /\ t > c.expire

\* Variants of FileGetResult: one that leaves an expired file in place, one
\* that hands out whatever prefix of a value the file holds.
FileGetResultKeep(c, t) ==
    IF ~JsonOk(c) THEN [ret |-> Miss, del |-> FALSE]
    ELSE IF Expired(c, t) THEN [ret |-> Miss, del |-> FALSE]
    ELSE [ret |-> Hit(c.data), del |-> FALSE]
Partial == 0 - 1
FileGetResultLenient(c, t) ==
    IF ~JsonOk(c) THEN [ret |-> Hit(Partial), del |-> FALSE]
    ELSE IF Expired(c, t) THEN [ret |-> Miss, del |-> TRUE]
    ELSE [ret |-> Hit(c.data), del |-> FALSE]

\* CacheManager.get after the file was read: the value returned and whether
\* _delete_cache_file is called.  A content that does not parse raises inside
\* the try block: the handler logs and returns None.
FileGetResult(c, t) ==
    IF ~JsonOk(c) THEN [ret |-> Miss, del |-> FALSE]
    ELSE IF Expired(c, t) THEN [ret |-> Miss, del |-> TRUE]
    ELSE [ret |-> Hit(c.data), del |-> FALSE]

\* Variant of DeleteCacheFileResult: delete reports success whatever it found.
DeleteCacheFileResultAlways(st, k) == TRUE

\* CacheManager._delete_cache_file
DeleteCacheFile(st, k) == [st EXCEPT ![k] = Absent]
DeleteCacheFileResult(st, k) == FileExists(st, k)

\* "if expire:" of both set methods
Truthy(e) == e # NoTTL /\ e # 0

\* cache_data of CacheManager.set
FileCacheData(d, e, t) == Entry(d, IF Truthy(e) THEN t + e ELSE NoExpire)

\* aiofiles.open(cache_path, 'w'): the file exists and is empty
FileOpenW(old) == Corrupt

\* ----------------------------------------------------- Redis cache backend
\* The server's view of a key: an expired key is gone.
RedisLive(c, t) == c.t # "absent" /\ ~(c.t = "entry" /\ Expired(c, t))
RedisGET(st, k, t) == IF RedisLive(st[k], t) THEN st[k] ELSE Absent

\* redis.setex(cache_key, expire, data) / redis.set(cache_key, data)
RedisCacheData(d, e, t) == Entry(d, IF Truthy(e) THEN t + e ELSE NoExpire)

\* redis.delete(cache_key) > 0
RedisDELETE(st, k) == [st EXCEPT ![k] = Absent]

\* cache_dir listing of get_cache_stats / redis.keys(pattern) of get_cache_stats
CacheStats(st, t) ==
    IF backend = "file"
    THEN LET present == {k \in Keys : FileExists(st, k)}
             bad == {k \in present : ~JsonOk(st[k]) \/ Expired(st[k], t)}
         IN [t |-> "stats", total |-> Cardinality(present),
             valid |-> Cardinality(present \ bad), expired |-> Cardinality(bad)]
    ELSE LET live == {k \in Keys : RedisLive(st[k], t)}
         IN [t |-> "stats", total |-> Cardinality(live),
             valid |-> Cardinality(live), expired |-> 0]

\* ------------------------------------------------------------- coroutines
Bool(b) == [t |-> "bool", b |-> b]
NoOut == [t |-> "none"]
Ok(d, src) == [t |-> "ok", data |-> d, src |-> src]
Err(ty, code) == [t |-> "error", type |-> ty, code |-> code]
\* an exception leaves an awaited cache operation
Raised == [t |-> "raise"]

\* parse_mode: int = 3 of get_biography, and what main.py passes
DefaultParseMode == 3

IdleProc ==
    [pc |-> "idle", ph |-> "none", key |-> "-", rd |-> Absent, linked |-> FALSE,
     data |-> 0, ttl |-> NoTTL, t0 |-> 0, saw |-> Absent,
     lock |-> 0, waited |-> FALSE, fetched |-> FALSE, out |-> NoOut,
     conc |-> FALSE, after |-> 0, todo |-> <<>>, cnt |-> 0, rem |-> 0, nflt |-> 0,
     parse_mode |-> DefaultParseMode, cached |-> {}]

\* History of the completed set calls on a key: the arguments of the last one,
\* the time t0 its expiry was counted from, and the expiry the entry it
\* replaced had (NoPrev: it replaced no entry written by set).
NoPrev == NoExpire - 1
NoModel == [set |-> FALSE, data |-> 0, ttl |-> NoTTL, t0 |-> 0, pexp |-> NoPrev]
SetRec(d, e, t, m) ==
    [set |-> TRUE, data |-> d, ttl |-> e, t0 |-> t,
     pexp |-> IF ~m.set THEN NoPrev ELSE IF Truthy(m.ttl) THEN m.t0 + m.ttl ELSE NoExpire]
NoLast == [op |-> "none", key |-> "-", ret |-> Miss, at |-> 0, saw |-> Absent,
           prev |-> "none", flt |-> FALSE]
FreeLock == [holder |-> 0, waiters |-> <<>>]
\* asyncio.Lock objects that can exist in one behaviour
MaxLocks == 3
LockIds == 1..MaxLocks

\* The part of the state the operations below transform.
Cur == [store |-> store, proc |-> proc, lockOf |-> lockOf, lk |-> lk,
        nlocks |-> nlocks, nfetch |-> nfetch, last |-> last,
        model |-> model]
Becomes(s) ==
    /\ store' = s.store
    /\ proc' = s.proc
    /\ lockOf' = s.lockOf
    /\ lk' = s.lk
    /\ nlocks' = s.nlocks
    /\ nfetch' = s.nfetch
    /\ last' = s.last
    /\ model' = s.model
    /\ UNCHANGED <<rateVars, factoryVars, pipeVars>>

\* -------------------------------------------- BiographyService.get_biography
\* return from get_biography (a value or a raised ServiceError)
Finish(s, p, o) ==
    [s EXCEPT !.proc[p] = [@ EXCEPT !.pc = "done", !.ph = "none", !.out = o,
                                    !.rd = Absent, !.linked = FALSE, !.t0 = 0]]

\* asyncio.Lock.release on leaving "async with lock": the first waiter, if
\* any, is woken and owns the lock next (no later arrival can overtake it).
Release(s, p) ==
    LET id == s.proc[p].lock
        l == s.lk[id]
    IN [s EXCEPT !.lk[id] = IF l.waiters = <<>> THEN FreeLock
                            ELSE [holder |-> Head(l.waiters),
                                  waiters |-> Tail(l.waiters)]]

\* Variant of Fail: the error leaves get_biography with the lock still held.
FailHolding(s, p) ==
    Finish(s, p, Err("LLMError", "BIOGRAPHY_EXTRACTION_FAILED"))

\* the except clause of get_biography: log_and_raise_error(LLMError, ...)
Fail(s, p) ==
    Release(Finish(s, p, Err("LLMError", "BIOGRAPHY_EXTRACTION_FAILED")), p)

\* the try block begins: _get_wikipedia_data is awaited
StartFetch(s, p) ==
    LET k == s.proc[p].key
        n == s.nfetch[k] + 1
    IN [s EXCEPT !.nfetch[k] = n,
                 !.proc[p] = [@ EXCEPT !.pc = "fetch", !.ph = "none",
                                       !.rd = Absent, !.fetched = TRUE,
                                       !.data = n]]

\* Whether cache.get(key) reaches a suspension point: the file backend returns
\* None at once when the file does not exist.
GetSuspends(st, k) == backend = "redis" \/ FileExists(st, k)
GetPh == IF backend = "file" THEN "read" ELSE "rget"

\* Variant of Return2: a hit on the second check returns with the lock held.
Return2Holding(s, p, rv) ==
    IF rv.t = "hit"
    THEN Finish(s, p, Ok(rv.data, "cache2"))
    ELSE IF rv = Raised
    THEN Release(Finish(s, p, Err("ServiceError", "INTERNAL_ERROR")), p)
    ELSE StartFetch(s, p)

\* the second cache check has returned rv (under the lock)
Return2(s, p, rv) ==
    IF rv.t = "hit"
    THEN Release(Finish(s, p, Ok(rv.data, "cache2")), p)
    ELSE IF rv = Raised
    THEN Release(Finish(s, p, Err("ServiceError", "INTERNAL_ERROR")), p)
    ELSE StartFetch(s, p)

\* "async with lock:" entered; cache.get is called again
Locked(s, p) ==
    LET s1 == [s EXCEPT !.proc[p].pc = "get2"]
    IN IF GetSuspends(s.store, s.proc[p].key)
       THEN [s1 EXCEPT !.proc[p].ph = GetPh]
       ELSE Return2(s1, p, Miss)

\* Variants of Acquire: one that enters without waiting for the holder, one
\* that takes a single lock whatever the key.
AcquireNoWait(s, p) ==
    LET k == s.proc[p].key
        fresh == s.lockOf[k] = 0
        id == IF fresh THEN s.nlocks + 1 ELSE s.lockOf[k]
        s1 == [s EXCEPT !.lockOf[k] = id,
                        !.nlocks = IF fresh THEN id ELSE @,
                        !.proc[p].lock = id]
    IN Locked([s1 EXCEPT !.lk[id].holder = p], p)
AcquireGlobal(s, p) ==
    LET k == s.proc[p].key
        s1 == [s EXCEPT !.lockOf[k] = 1, !.nlocks = 1, !.proc[p].lock = 1]
    IN IF s1.lk[1].holder = 0
       THEN Locked([s1 EXCEPT !.lk[1].holder = p], p)
       ELSE [s1 EXCEPT !.lk[1].waiters = Append(@, p),
                       !.proc[p] = [@ EXCEPT !.pc = "wait", !.ph = "none",
                                             !.rd = Absent, !.waited = TRUE]]

\* lock = self._request_locks.setdefault(cache_key, asyncio.Lock()), then
\* asyncio.Lock.acquire
Acquire(s, p) ==
    LET k == s.proc[p].key
        fresh == s.lockOf[k] = 0
        id == IF fresh THEN s.nlocks + 1 ELSE s.lockOf[k]
        s1 == [s EXCEPT !.lockOf[k] = id,
                        !.nlocks = IF fresh THEN id ELSE @,
                        !.proc[p].lock = id]
    IN IF s1.lk[id].holder = 0
       THEN Locked([s1 EXCEPT !.lk[id].holder = p], p)
       ELSE [s1 EXCEPT !.lk[id].waiters = Append(@, p),
                       !.proc[p] = [@ EXCEPT !.pc = "wait", !.ph = "none",
                                             !.rd = Absent, !.waited = TRUE]]

\* the first cache check has returned rv
Return1(s, p, rv) ==
    IF rv.t = "hit"
    THEN Finish(s, p, Ok(rv.data, "cache1"))
    ELSE IF rv = Raised
    THEN Finish(s, p, Err("ServiceError", "INTERNAL_ERROR"))
    ELSE Acquire(s, p)

\* cache.set has returned (its flag is not looked at); return biography
ReturnSet(s, p, rv) ==
    IF rv = Raised THEN Fail(s, p)
    ELSE Release(Finish(s, p, Ok(s.proc[p].data, "computed")), p)

\* ----------------------------------------------------------- cache client
\* a cache operation called directly has returned rv
ClientReturn(s, p, rv) ==
    LET pr == s.proc[p]
        k == IF pr.pc = "cstats" THEN s.last.key ELSE pr.key
        m == IF k \in Keys THEN s.model[k] ELSE NoModel
    IN [s EXCEPT
          !.last = [op |-> pr.pc, key |-> k, ret |-> rv, at |-> now, saw |-> pr.saw,
                    prev |-> s.last.op, flt |-> pr.nflt > 0],
          !.model = IF pr.pc = "cset" /\ rv = Bool(TRUE)
                    THEN [@ EXCEPT ![k] = SetRec(pr.data, pr.ttl, pr.t0, m)]
                    ELSE IF pr.pc = "cdel" THEN [@ EXCEPT ![k] = NoModel]
                    ELSE @,
          !.proc[p] = IdleProc]

\* a cache operation of coroutine p has returned rv: back in the caller
Return(s, p, rv) ==
    CASE s.proc[p].pc = "get1" -> Return1(s, p, rv)
      [] s.proc[p].pc = "get2" -> Return2(s, p, rv)
      [] s.proc[p].pc = "set" -> ReturnSet(s, p, rv)
      [] OTHER -> ClientReturn(s, p, rv)

\* os.remove(cache_path): a writer that holds the file open keeps writing to
\* the unlinked file.
RemoveFile(s, k) ==
    [s EXCEPT !.store = DeleteCacheFile(@, k),
              !.proc = [q \in Procs |->
                          IF @[q].ph = "write" /\ @[q].key = k
                          THEN [@[q] EXCEPT !.linked = FALSE] ELSE @[q]]]

\* cache.set(key, data, expire) up to its first suspension point
CacheSetStart(s, p) ==
    LET pr == s.proc[p]
    IN IF backend = "file"
       THEN [s EXCEPT !.proc[p] = [@ EXCEPT !.ph = "open", !.t0 = now,
                                   !.rd = FileCacheData(pr.data, pr.ttl, now)]]
       ELSE [s EXCEPT !.proc[p].ph = "rset"]

\* ------------------------------------------------- steps of cache operations
\* CacheManager.get: aiofiles.open(cache_path, 'r') and f.read() ran in the
\* thread pool.  A file removed since the exists() check raises, get returns None.
FileRead(p) ==
    /\ proc[p].ph = "read"
    /\ Becomes(IF FileExists(store, proc[p].key)
               THEN [Cur EXCEPT !.proc[p].ph = "fin",
                                !.proc[p].rd = store[proc[p].key]]
               ELSE Return(Cur, p, Miss))
    /\ UNCHANGED <<backend, now, ticks>>

\* CacheManager.get: the file is closed; parse, check the expiry, return
FileGetFin(p) ==
    /\ proc[p].ph = "fin"
    /\ LET r == FileGetResult(proc[p].rd, now)
           s1 == IF r.del THEN RemoveFile(Cur, proc[p].key) ELSE Cur
       IN Becomes(Return(s1, p, r.ret))
    /\ UNCHANGED <<backend, now, ticks>>

\* CacheManager.set: aiofiles.open(cache_path, 'w') ran
FileSetOpen(p) ==
    /\ proc[p].ph = "open"
    /\ Becomes([Cur EXCEPT !.store[proc[p].key] = FileOpenW(@),
                           !.proc[p].ph = "write",
                           !.proc[p].linked = TRUE])
    /\ UNCHANGED <<backend, now, ticks>>

\* CacheManager.set: f.write(json.dumps(cache_data)) and the close ran; True
FileSetWrite(p) ==
    /\ proc[p].ph = "write"
    /\ LET s1 == IF proc[p].linked
                 THEN [Cur EXCEPT !.store[proc[p].key] = proc[p].rd]
                 ELSE Cur
       IN Becomes(Return(s1, p, Bool(TRUE)))
    /\ UNCHANGED <<backend, now, ticks>>

\* RedisCacheManager.get: redis.get(cache_key) answered
RedisGetRpc(p) ==
    /\ proc[p].ph = "rget"
    /\ LET c == RedisGET(store, proc[p].key, now)
       IN Becomes(IF c.t = "absent" THEN Return(Cur, p, Miss)
                  ELSE IF JsonOk(c) THEN Return(Cur, p, Hit(c.data))
                  ELSE [Cur EXCEPT !.proc[p].ph = "rdel"])
    /\ UNCHANGED <<backend, now, ticks>>

\* redis.delete(cache_key) answered: in RedisCacheManager.delete, or in get
\* after a JSONDecodeError
RedisDelRpc(p) ==
    /\ proc[p].ph = "rdel"
    /\ LET k == proc[p].key
           was == RedisLive(store[k], now)
           s1 == [Cur EXCEPT !.store = RedisDELETE(@, k)]
       IN Becomes(Return(s1, p, IF proc[p].pc = "cdel" THEN Bool(was) ELSE Miss))
    /\ UNCHANGED <<backend, now, ticks>>

\* RedisCacheManager.set: redis.setex / redis.set answered; True
RedisSetRpc(p) ==
    /\ proc[p].ph = "rset"
    /\ LET pr == proc[p]
           s1 == [Cur EXCEPT !.store[pr.key] = RedisCacheData(pr.data, pr.ttl, now),
                             !.proc[p].t0 = now]
       IN Becomes(Return(s1, p, Bool(TRUE)))
    /\ UNCHANGED <<backend, now, ticks>>

\* Variant of OnError: the exception is not caught.
OnErrorRaise(pc) == Raised

\* The "except Exception" clauses of get (return None) and of set and delete
\* (return False), for the operation the coroutine at pc is in.
OnError(pc) == IF pc \in {"get1", "get2", "cget"} THEN Miss ELSE Bool(FALSE)

\* an operation of coroutine p on the cache has met an error
Faulted(s, p) == [s EXCEPT !.proc[p].nflt = @ + 1]

\* CacheManager.get: aiofiles.open or f.read raised (I/O error)
FileReadFault(p) ==
    /\ proc[p].ph = "read"
    /\ Becomes(Return(Faulted(Cur, p), p, OnError(proc[p].pc)))
    /\ UNCHANGED <<backend, now, ticks>>

\* CacheManager.get on an expired entry: os.remove raised; _delete_cache_file
\* returns False and get returns None
FileGetFinFault(p) ==
    /\ proc[p].ph = "fin"
    /\ FileGetResult(proc[p].rd, now).del
    /\ Becomes(Return(Faulted(Cur, p), p, Miss))
    /\ UNCHANGED <<backend, now, ticks>>

\* CacheManager.set: aiofiles.open(cache_path, 'w') raised
FileSetOpenFault(p) ==
    /\ proc[p].ph = "open"
    /\ Becomes(Return(Faulted(Cur, p), p, OnError(proc[p].pc)))
    /\ UNCHANGED <<backend, now, ticks>>

\* CacheManager.set: json.dumps or f.write raised, the file stays as opened
FileSetWriteFault(p) ==
    /\ proc[p].ph = "write"
    /\ Becomes(Return(Faulted(Cur, p), p, OnError(proc[p].pc)))
    /\ UNCHANGED <<backend, now, ticks>>

\* RedisCacheManager.get / set / delete: _get_redis or the command raised
\* (the server cannot be reached), or json.dumps raised in set
RedisFault(p) ==
    /\ proc[p].ph \in {"rget", "rset", "rdel"}
    /\ Becomes(Return(Faulted(Cur, p), p, OnError(proc[p].pc)))
    /\ UNCHANGED <<backend, now, ticks>>

CacheStep(p) ==
    \/ FileRead(p)
    \/ FileGetFin(p)
    \/ FileSetOpen(p)
    \/ FileSetWrite(p)
    \/ RedisGetRpc(p)
    \/ RedisDelRpc(p)
    \/ RedisSetRpc(p)

\* ------------------------------------------------------ get_biography steps
\* History kept with a call: whether no call for its key had completed when
\* it was issued, and the number of the last pipeline invocation for its key
\* if that invocation had failed by then (0 otherwise).
NoneDone(k) == \A q \in Procs : proc[q].key = k => proc[q].pc # "done"
LastFailed(k) ==
    IF \E q \in Procs : /\ proc[q].key = k /\ proc[q].fetched
                         /\ proc[q].data = nfetch[k] /\ proc[q].out.t = "error"
    THEN nfetch[k] ELSE 0

\* get_biography(name, language, detail_level) is called: first cache check
Call(p, k) ==
    /\ proc[p].pc = "idle"
    /\ \A q \in Procs : q < p => proc[q].pc # "idle"
    /\ LET s1 == [Cur EXCEPT !.proc[p] = [IdleProc EXCEPT !.pc = "get1", !.key = k,
                                                         !.conc = NoneDone(k),
                                                         !.after = LastFailed(k)]]
       IN Becomes(IF GetSuspends(store, k)
                  THEN [s1 EXCEPT !.proc[p].ph = GetPh]
                  ELSE Return1(s1, p, Miss))
    /\ UNCHANGED <<backend, now, ticks>>

\* History kept with a call: the parse modes of the calls for its key that
\* had computed and cached a result when it was issued.
CachedBy(k) ==
    {proc[q].parse_mode : q \in {r \in Procs : /\ proc[r].key = k /\ proc[r].pc = "done"
                                               /\ proc[r].out.t = "ok"
                                               /\ proc[r].out.src = "computed"}}

\* get_biography(name, language, detail_level, parse_mode) is called
CallMode(p, k, m) ==
    /\ proc[p].pc = "idle"
    /\ \A q \in Procs : q < p => proc[q].pc # "idle"
    /\ LET s1 == [Cur EXCEPT !.proc[p] = [IdleProc EXCEPT !.pc = "get1", !.key = k,
                                                         !.conc = NoneDone(k),
                                                         !.after = LastFailed(k),
                                                         !.parse_mode = m,
                                                         !.cached = CachedBy(k)]]
       IN Becomes(IF GetSuspends(store, k)
                  THEN [s1 EXCEPT !.proc[p].ph = GetPh]
                  ELSE Return1(s1, p, Miss))
    /\ UNCHANGED <<backend, now, ticks>>

\* a waiter woken by release runs again and owns the lock
Resume(p) ==
    /\ proc[p].pc = "wait"
    /\ lk[proc[p].lock].holder = p
    /\ Becomes(Locked(Cur, p))
    /\ UNCHANGED <<backend, now, ticks>>

\* _get_wikipedia_data returned the article text; the strategy is awaited
FetchOk(p) ==
    /\ proc[p].pc = "fetch"
    /\ Becomes([Cur EXCEPT !.proc[p].pc = "strategy"])
    /\ UNCHANGED <<backend, now, ticks>>

\* _get_wikipedia_data raised WikipediaError
FetchFail(p) ==
    /\ proc[p].pc = "fetch"
    /\ Becomes(Fail(Cur, p))
    /\ UNCHANGED <<backend, now, ticks>>

\* the strategy returned a trajectory; BiographyData is built and cache.set
\* (cache_key, biography.dict(), expire=3600*24) is called
StrategyOk(p) ==
    /\ proc[p].pc = "strategy"
    /\ proc[p].parse_mode \in 1..4
    /\ Becomes(CacheSetStart([Cur EXCEPT !.proc[p].pc = "set",
                                         !.proc[p].ttl = BiographyTTL], p))
    /\ UNCHANGED <<backend, now, ticks>>

\* the strategy (or the conversion of its result) raised
StrategyFail(p) ==
    /\ proc[p].pc = "strategy"
    /\ Becomes(Fail(Cur, p))
    /\ UNCHANGED <<backend, now, ticks>>

\* BiographyService.close: after "await super().close()",
\* self._request_locks.clear(); the lock objects live on in the calls that
\* hold or await them
Close ==
    /\ \E k \in Keys : lockOf[k] # 0
    /\ nlocks + Cardinality(Keys) <= MaxLocks
    /\ Becomes([Cur EXCEPT !.lockOf = [k \in Keys |-> 0]])
    /\ UNCHANGED <<backend, now, ticks>>

\* The task awaiting get_biography is cancelled while the pipeline runs in it
\* (the pipeline is awaited in the caller's own task): CancelledError is
\* raised at the await, passes the "except Exception" clauses and leaves
\* through "async with lock", which releases the lock.
Cancelled == Err("CancelledError", "")
Cancel(p) ==
    /\ proc[p].pc \in {"fetch", "strategy"}
    /\ Becomes(Release(Finish(Cur, p, Cancelled), p))
    /\ UNCHANGED <<backend, now, ticks>>

\* a day passes
TickDay ==
    /\ ticks < MaxTicks
    /\ now' = now + BiographyTTL
    /\ ticks' = ticks + 1
    /\ UNCHANGED <<backend, store, proc, lockOf, lk, nlocks, nfetch, last, model>>
    /\ UNCHANGED <<rateVars, factoryVars, pipeVars>>

\* ------------------------------------------------------------ cache factory
\* os.environ as create_cache_manager reads it; redis_pkg: whether
\* "import redis.asyncio" in caching.redis_cache_manager succeeds
CacheTypes == {"", "redis", "REDIS", "file", "memory"}
RedisUrls == {"", "redis://cache:6379"}
Environs == [CACHE_TYPE : CacheTypes, REDIS_URL : RedisUrls, redis_pkg : BOOLEAN]
NoEnviron == [CACHE_TYPE |-> "", REDIS_URL |-> "", redis_pkg |-> TRUE]
None == [t |-> "none"]
DefaultRedisUrl == "redis://localhost:6379"

\* str.lower() on the values of CacheTypes
Lower(str) == IF str = "REDIS" THEN "redis" ELSE str

\* _create_redis_cache(redis_url): the manager, or the exception re-raised
CreateRedisCache(redis_url, env) ==
    IF ~env.redis_pkg
    THEN Raised
    ELSE [t |-> "redis",
          url |-> IF redis_url = ""
                  THEN (IF env.REDIS_URL = "" THEN DefaultRedisUrl ELSE env.REDIS_URL)
                  ELSE redis_url]

\* _create_file_cache()
CreateFileCache == [t |-> "file"]

\* create_cache_manager with the connection string looked at first
CreateCacheManagerUrlFirst(env) ==
    LET cache_type == Lower(env.CACHE_TYPE)
        redis_url == env.REDIS_URL
    IN  IF redis_url # ""
        THEN LET r == CreateRedisCache(redis_url, env)
             IN  IF r.t = "raise" THEN CreateFileCache ELSE r
        ELSE IF cache_type = "redis" THEN CreateRedisCache(redis_url, env)
        ELSE CreateFileCache

\* create_cache_manager falling back to the file cache in every case
CreateCacheManagerFallback(env) ==
    LET cache_type == Lower(env.CACHE_TYPE)
        redis_url == env.REDIS_URL
    IN  IF cache_type = "file" THEN CreateFileCache
        ELSE IF cache_type = "redis" \/ redis_url # ""
        THEN LET r == CreateRedisCache(redis_url, env)
             IN  IF r.t = "raise" THEN CreateFileCache ELSE r
        ELSE CreateFileCache

\* create_cache_manager()
CreateCacheManager(env) ==
    LET cache_type == Lower(env.CACHE_TYPE)
        redis_url == env.REDIS_URL
    IN  IF cache_type = "redis" THEN CreateRedisCache(redis_url, env)
        ELSE IF cache_type = "file" THEN CreateFileCache
        ELSE IF redis_url # ""
        THEN LET r == CreateRedisCache(redis_url, env)
             IN  IF r.t = "raise" THEN CreateFileCache ELSE r
        ELSE CreateFileCache

\* a cache manager object: the n-th one constructed in this process
Instance(n, kind) == [t |-> "inst", id |-> n, kind |-> kind]

\* get_cache_manager without the "is None" test
GetCacheManagerEager(cm, env, n) ==
    LET c == CreateCacheManager(env)
    IN  IF c.t = "raise"
        THEN [cm |-> cm, ret |-> Raised, n |-> n]
        ELSE [cm |-> Instance(n + 1, c), ret |-> Instance(n + 1, c), n |-> n + 1]

\* get_cache_manager(): the new value of _cache_manager, what is returned
\* (or raised) and the number of managers constructed so far
GetCacheManagerResult(cm, env, n) ==
    IF cm = None
    THEN LET c == CreateCacheManager(env)
         IN  IF c.t = "raise"
             THEN [cm |-> None, ret |-> Raised, n |-> n]
             ELSE [cm |-> Instance(n + 1, c), ret |-> Instance(n + 1, c), n |-> n + 1]
    ELSE [cm |-> cm, ret |-> cm, n |-> n]


\* ------------------------------------------------------ extraction pipeline
\* The article is a sequence of paragraphs separated by blank lines; what
\* matters of a paragraph is its length:
\*   blank: whitespace only,  tiny: below min_chunk_length (30),
\*   short: below MIN_PARAGRAPH_LENGTH (200),  long: 200 or more.
\* The event told in paragraph i is i.
MaxParas == 3
ParaKinds == {"blank", "tiny", "short", "long"}
Texts == UNION {[1..n -> ParaKinds] : n \in 0..MaxParas}
NoInput == [t |-> "none"]
\* no cap computed yet
NoCap == 0 - 1
NoResults == [m3 |-> NoOut, m4 |-> NoOut, validated |-> NoOut, m1 |-> NoOut, body |-> NoOut,
              cap3 |-> NoCap, cap4 |-> NoCap, keys |-> NoOut, merged |-> NoOut]

\* A deterministic model collaborator: what it answers to the prompt built
\* on paragraph i by concurrent-chunked (chat), by the map step (map), to the
\* reduce prompt (reduce) and to the single-shot prompt (whole).
\*   ok: a JSON object with person_name and trajectory,  bad: not JSON,
\*   list: JSON, but a list instead of an object,  raise: the call raises
ChatReplies == {"ok", "bad", "list", "raise"}
MapReplies == {"ok", "raise"}
ReduceReplies == {"ok", "raise", "bad", "empty", "list"}

\* the dict a strategy returns
Trajectory(person_name, trajectory) ==
    [t |-> "ok", person_name |-> person_name, trajectory |-> trajectory]

\* [p.strip() for p in biography_text.split('\n\n') if p.strip()], as positions
RawParagraphs(text) == SelectSeq([i \in 1..Len(text) |-> i], LAMBDA i : text[i] # "blank")

\* MIN_PARAGRAPH_LENGTH
MinParagraphLength == 200

\* len(paragraph), one representative length per kind
ParaLen(kind) ==
    CASE kind = "blank" -> 0
      [] kind = "tiny" -> 10
      [] kind = "short" -> 50
      [] kind = "long" -> MinParagraphLength

\* len of a chunk: its paragraphs joined by "\n\n"
RECURSIVE ChunkLenFrom(_, _, _)
ChunkLenFrom(text, chunk, i) ==
    IF i > Len(chunk) THEN 0
    ELSE ParaLen(text[chunk[i]]) + (IF i > 1 THEN 2 ELSE 0) + ChunkLenFrom(text, chunk, i + 1)
ChunkLen(text, chunk) == ChunkLenFrom(text, chunk, 1)

\* _merge_short_paragraphs keeping only the short paragraph of a merged pair
RECURSIVE MergeFromDropping(_, _, _)
MergeFromDropping(text, paragraphs, i) ==
    IF i > Len(paragraphs) THEN <<>>
    ELSE IF ParaLen(text[paragraphs[i]]) < MinParagraphLength /\ i < Len(paragraphs)
         THEN <<(<<paragraphs[i]>>)>> \o MergeFromDropping(text, paragraphs, i + 2)
         ELSE <<(<<paragraphs[i]>>)>> \o MergeFromDropping(text, paragraphs, i + 1)
MergeShortParagraphsDropping(text, paragraphs) == MergeFromDropping(text, paragraphs, 1)

\* _merge_short_paragraphs: a chunk is the sequence of paragraphs joined in it
RECURSIVE MergeFrom(_, _, _)
MergeFrom(text, paragraphs, i) ==
    IF i > Len(paragraphs) THEN <<>>
    ELSE IF ParaLen(text[paragraphs[i]]) < MinParagraphLength /\ i < Len(paragraphs)
         THEN <<(<<paragraphs[i], paragraphs[i + 1]>>)>> \o MergeFrom(text, paragraphs, i + 2)
         ELSE <<(<<paragraphs[i]>>)>> \o MergeFrom(text, paragraphs, i + 1)
MergeShortParagraphs(text, paragraphs) == MergeFrom(text, paragraphs, 1)

\* llm_client.chat on the prompt of one chunk
ChatReply(llm, chunk) ==
    IF \E j \in 1..Len(chunk) : llm.chat[chunk[j]] = "raise" THEN "raise"
    ELSE IF \E j \in 1..Len(chunk) : llm.chat[chunk[j]] = "bad" THEN "bad"
    ELSE IF \E j \in 1..Len(chunk) : llm.chat[chunk[j]] = "list" THEN "list"
    ELSE "ok"

\* _parse_mode_2: one call on the whole text
ParseMode2(in) ==
    IF in.llm.whole = "ok" THEN Trajectory("P", RawParagraphs(in.text)) ELSE Raised

\* the merge loop of _parse_mode_3 over the responses
RECURSIVE MergeResponses(_, _, _)
MergeResponses(llm, chunks, i) ==
    IF i > Len(chunks) THEN <<>>
    ELSE (IF ChatReply(llm, chunks[i]) = "ok" THEN chunks[i] ELSE <<>>)
         \o MergeResponses(llm, chunks, i + 1)

\* _parse_mode_3
ParseMode3(in) ==
    LET raw_paragraphs == RawParagraphs(in.text)
        paragraphs == MergeShortParagraphs(in.text, raw_paragraphs)
    IN  IF raw_paragraphs = <<>> THEN ParseMode2(in)
        ELSE IF \E i \in 1..Len(paragraphs) : ChatReply(in.llm, paragraphs[i]) = "raise"
        THEN Raised                                   \* chat_batch raises
        ELSE IF \E i \in 1..Len(paragraphs) :
                    /\ ChatReply(in.llm, paragraphs[i]) = "list"
                    /\ \A j \in 1..(i - 1) : ChatReply(in.llm, paragraphs[j]) # "ok"
        THEN Raised           \* data.get on a list while person_name is empty
        ELSE LET trajectory == MergeResponses(in.llm, paragraphs, 1)
                 named == \E i \in 1..Len(paragraphs) : ChatReply(in.llm, paragraphs[i]) = "ok"
             IN  Trajectory(IF named THEN "P" ELSE "Unknown", trajectory)

\* _split_documents: one document per paragraph, those shorter than
\* min_chunk_length filtered out
SplitDocuments(text) ==
    SelectSeq([i \in 1..Len(text) |-> i], LAMBDA i : text[i] \in {"short", "long"})

\* _map_documents_node: the results of the map calls that did not raise
MapDocuments(llm, documents) == SelectSeq(documents, LAMBDA d : llm.map[d] = "ok")

\* process_biography: the validated result, or the exception
\*   "empty" stands for a result without trajectory points
ProcessBiography(in) ==
    IF RawParagraphs(in.text) = <<>> THEN "raise"     \* ValueError: empty text
    ELSE IF in.split = "raise" THEN "raise"
    ELSE LET documents == SplitDocuments(in.text)
             map_results == MapDocuments(in.llm, documents)
         IN  IF documents = <<>> THEN "empty"
             ELSE IF map_results = <<>> THEN "empty"
             ELSE IF in.llm.reduce = "raise" THEN "raise"   \* final_state["error"]
             ELSE IF in.llm.reduce = "bad" THEN "empty"     \* _parse_result
             ELSE IF in.llm.reduce = "list" THEN "raise"    \* _validate_result: TypeError
             ELSE in.llm.reduce

\* The (time, location) pair of the event told in paragraph e: the model may
\* date and place the event of paragraph 2 like the one of paragraph 1.
EventKey(in, e) == IF in.llm.same /\ e = 2 THEN 1 ELSE e

\* _validate_result on the reduced trajectory: the first event of every pair
RECURSIVE DedupEvents(_, _, _)
DedupEvents(in, events, i) ==
    IF i > Len(events) THEN <<>>
    ELSE IF \E j \in 1..(i - 1) : EventKey(in, events[j]) = EventKey(in, events[i])
         THEN DedupEvents(in, events, i + 1)
         ELSE <<events[i]>> \o DedupEvents(in, events, i + 1)

\* _parse_mode_4
ParseMode4(in) ==
    IF ~in.processor THEN ParseMode3(in)
    ELSE IF ProcessBiography(in) = "ok"
         THEN Trajectory("P", DedupEvents(in, MapDocuments(in.llm, SplitDocuments(in.text)), 1))
         ELSE ParseMode3(in)

\* the inputs: what the model is asked about blank paragraphs does not exist
Inputs ==
    {in \in [t : {"in"}, text : Texts, processor : BOOLEAN, split : {"ok", "raise"},
             llm : UNION {[chat : [1..n -> ChatReplies], map : [1..n -> MapReplies],
                           reduce : ReduceReplies, whole : {"ok", "raise"},
                           same : BOOLEAN]
                          : n \in 0..MaxParas}] :
        /\ DOMAIN in.llm.chat = DOMAIN in.text
        /\ DOMAIN in.llm.map = DOMAIN in.text
        /\ \A i \in DOMAIN in.text :
              /\ in.text[i] = "blank" => in.llm.chat[i] = "ok"
              /\ in.text[i] \in {"blank", "tiny"} => in.llm.map[i] = "ok"
        /\ RawParagraphs(in.text) # <<>> => in.llm.whole = "ok"
        /\ in.llm.same => (Len(in.text) >= 2 /\ in.text[1] # "blank" /\ in.text[2] # "blank")
        /\ ~in.processor => in.split = "ok"}

\* ------------------------------------------------------ result validation
\* A trajectory as returned by the model: dicts with optional "time" and
\* "location" entries (desc tells two points with equal keys apart) and
\* items that are not dicts.
MaxPoints == 3
Missing == "<missing>"
PointTimes == {"1990", "1991"}
PointLocations == {"A", "B", Missing}
Point(time, location, desc) ==
    [t |-> "dict", time |-> time, location |-> location, desc |-> desc]
NotADict == [t |-> "other"]
Items == {Point(tm, lc, ds) : tm \in PointTimes, lc \in PointLocations, ds \in {"x", "y"}}
             \cup {NotADict}
ItemLists == UNION {[1..n -> Items] : n \in 0..MaxPoints}

\* item.get(field, "")
Get(item, field) == IF item[field] = Missing THEN "" ELSE item[field]

\* the key tuple of _deduplicate_data for key_fields ["time", "location"]
DedupKey(item) == <<Get(item, "time"), Get(item, "location")>>

\* _deduplicate_data keeping the last point of every key
RECURSIVE DedupLastFrom(_, _)
DedupLastFrom(data, i) ==
    IF i > Len(data) THEN <<>>
    ELSE IF data[i].t # "dict" THEN DedupLastFrom(data, i + 1)
    ELSE IF \E j \in (i + 1)..Len(data) :
                data[j].t = "dict" /\ DedupKey(data[j]) = DedupKey(data[i])
         THEN DedupLastFrom(data, i + 1)
         ELSE <<data[i]>> \o DedupLastFrom(data, i + 1)
DeduplicateDataLast(data) == DedupLastFrom(data, 1)

\* the loop of _deduplicate_data from item i on, with the keys seen so far
RECURSIVE DedupFrom(_, _, _)
DedupFrom(data, i, seen) ==
    IF i > Len(data) THEN <<>>
    ELSE IF data[i].t # "dict" THEN DedupFrom(data, i + 1, seen)
    ELSE IF DedupKey(data[i]) \in seen THEN DedupFrom(data, i + 1, seen)
    ELSE <<data[i]>> \o DedupFrom(data, i + 1, seen \cup {DedupKey(data[i])})

\* _deduplicate_data(data, ["time", "location"]) (no sort_key)
DeduplicateData(data) == DedupFrom(data, 1, {})

\* the result of _parse_result: with or without a "life_trajectory" entry
EmptyLifeTrajectory == [t |-> "result", person_name |-> "", trajectory |-> <<>>]
ParsedResults ==
    {[t |-> "nokey"]}
        \cup {[t |-> "result", person_name |-> "P", trajectory |-> d] : d \in ItemLists}

\* _validate_result: result["life_trajectory"]
ValidateResult(result) ==
    IF result.t = "nokey" THEN EmptyLifeTrajectory
    ELSE [result EXCEPT !.trajectory = DeduplicateData(result.trajectory)]

\* ------------------------------------------- the try block of get_biography
\* A request that missed the cache twice: how the article fetch ends, the
\* parse_mode, and the trajectory the model extracts. Of a trajectory point
\* matter its "place" and whether get_biography can convert it:
\*   good: has coordinates, time and description,
\*   nocoords: has no "coordinates" entry,  notime: has no "time" entry.
FetchOutcomes == {"ok", "notfound", "unavailable"}
ParseModes == 0..5
Places == {"", "X", "Y"}
PointKinds == {"good", "nocoords", "notime"}
TrajectoryPoint(place, kind) == [place |-> place, kind |-> kind]
Trajectories ==
    UNION {[1..n -> {TrajectoryPoint(pl, kd) : pl \in Places, kd \in PointKinds}]
           : n \in 0..MaxPoints}
Requests ==
    {rq \in [t : {"req"}, fetch : FetchOutcomes, parse_mode : ParseModes,
             extraction : {"ok", "raise"}, trajectory : Trajectories] :
        /\ (rq.fetch # "ok" \/ rq.parse_mode \notin 1..4 \/ rq.extraction = "raise")
              => rq.trajectory = <<>>
        /\ (rq.fetch # "ok" \/ rq.parse_mode \notin 1..4) => rq.extraction = "ok"}

\* an exception: its class, error_code and message
Exc(ty, code, message) == [t |-> "error", type |-> ty, code |-> code, message |-> message]

\* _get_wikipedia_data: both failures leave through its except clause
WikipediaData(rq) ==
    IF rq.fetch = "ok" THEN [t |-> "ok"]
    ELSE Exc("WikipediaError", "WIKIPEDIA_API_ERROR", "wikipedia fetch failed")

\* the coordinate calls of _parse_mode_1: one per point with a place
CoordinateCalls(trajectory) ==
    Cardinality({i \in 1..Len(trajectory) : trajectory[i].place # ""})

\* _parse_mode_1: the trajectory with coordinates on every point, and the
\* number of model calls issued
ParseMode1(rq) ==
    IF rq.extraction = "raise"
    THEN [t |-> "raise", calls |-> 1]
    ELSE [t |-> "ok", calls |-> 1 + CoordinateCalls(rq.trajectory),
          trajectory |-> [i \in 1..Len(rq.trajectory) |->
                             [rq.trajectory[i] EXCEPT !.kind =
                                 IF @ = "nocoords" THEN "good" ELSE @]]]

\* the strategy selected by parse_mode: its trajectory, or the exception
StrategyResult(rq) ==
    IF rq.parse_mode \notin 1..4
    THEN Exc("ValueError", "", "unsupported parse_mode")
    ELSE IF rq.extraction = "raise" THEN Exc("Exception", "", "extraction failed")
    ELSE IF rq.parse_mode = 1 THEN [t |-> "ok", trajectory |-> ParseMode1(rq).trajectory]
    ELSE [t |-> "ok", trajectory |-> rq.trajectory]

\* the conversion loop skipping the points it cannot convert
ConvertTrajectoryPartial(trajectory) ==
    LET good == SelectSeq(trajectory, LAMBDA pt : pt.kind = "good")
    IN  [t |-> "ok",
         coordinates |-> [i \in 1..Len(good) |-> good[i].place],
         descriptions |-> [i \in 1..Len(good) |-> i]]

\* the conversion loop taking from every point what the point has
ConvertTrajectoryLoose(trajectory) ==
    LET idx == [i \in 1..Len(trajectory) |-> i]
        located == SelectSeq(idx, LAMBDA i : trajectory[i].kind # "nocoords")
        dated == SelectSeq(idx, LAMBDA i : trajectory[i].kind # "notime")
    IN  [t |-> "ok",
         coordinates |-> [n \in 1..Len(located) |-> trajectory[located[n]].place],
         descriptions |-> dated]

\* the conversion loop and BiographyData(...): KeyError on a missing entry
ConvertTrajectory(trajectory) ==
    IF \E i \in 1..Len(trajectory) : trajectory[i].kind # "good"
    THEN Exc("KeyError", "", "missing entry")
    ELSE [t |-> "ok",
          coordinates |-> [i \in 1..Len(trajectory) |-> trajectory[i].place],
          descriptions |-> [i \in 1..Len(trajectory) |-> i]]

\* the except clause of get_biography: log_and_raise_error(LLMError, ...)
ExceptClause(e) ==
    [out |-> Exc("LLMError", "BIOGRAPHY_EXTRACTION_FAILED", "cannot get the biography"),
     original |-> e.message]

\* the try block of get_biography: what the caller gets, whether cache.set
\* was called, the fetches made and whether the model was called
GetBiographyTry(rq) ==
    LET wiki_data == WikipediaData(rq)
        trajectory_data == StrategyResult(rq)
        supported == rq.parse_mode \in 1..4
    IN  IF wiki_data.t = "error"
        THEN ExceptClause(wiki_data) @@ [set |-> FALSE, fetches |-> 1, llm_called |-> FALSE]
        ELSE IF trajectory_data.t = "error"
        THEN ExceptClause(trajectory_data)
                 @@ [set |-> FALSE, fetches |-> 1, llm_called |-> supported]
        ELSE LET biography == ConvertTrajectory(trajectory_data.trajectory)
             IN  IF biography.t = "error"
                 THEN ExceptClause(biography)
                          @@ [set |-> FALSE, fetches |-> 1, llm_called |-> TRUE]
                 ELSE [out |-> biography, original |-> "", set |-> TRUE,
                       fetches |-> 1, llm_called |-> TRUE]

\* ------------------------------------------------------ per-chunk caps
\* max_trajectories_per_chunk, total_trajectories_target (ProcessingConfig)
\* and the literals 10 and 30 of _parse_mode_3
MaxTrajectoriesPerChunk == 10
TotalTrajectoriesTarget == 40
ParagraphCap == 10
ParagraphTarget == 30
MaxChunks == 45

\* max(a, b), min(a, b)
MaxOf(a, b) == IF a >= b THEN a ELSE b
MinOf(a, b) == IF a <= b THEN a ELSE b

\* _parse_mode_3: max_trajectories_per_paragraph for len(paragraphs) = n
MaxTrajectoriesPerParagraph(n) == MaxOf(1, MinOf(ParagraphCap, ParagraphTarget \div n))

\* _calculate_max_trajectories without the lower bound of 1
CalculateMaxTrajectoriesNoFloor(total_chunks) ==
    IF total_chunks <= 1 THEN MaxTrajectoriesPerChunk
    ELSE MinOf(MaxTrajectoriesPerChunk, TotalTrajectoriesTarget \div total_chunks)

\* _calculate_max_trajectories(total_chunks)
CalculateMaxTrajectories(total_chunks) ==
    IF total_chunks <= 1 THEN MaxTrajectoriesPerChunk
    ELSE MaxOf(1, MinOf(MaxTrajectoriesPerChunk, TotalTrajectoriesTarget \div total_chunks))

\* ------------------------------------------------------------- cache keys
\* A string is a sequence of characters. A name that passed
\* validate_person_name holds no underscore; language and detail_level are
\* any strings of the request body.
MaxStr == 3
KeyChars == {"a", "_"}
Strings == UNION {[1..n -> KeyChars] : n \in 1..MaxStr}
PersonNames == {<<"a">>, <<"a", "a">>}
Triples == [name : PersonNames, language : Strings, detail_level : Strings]

\* cache_key = f"biography_{name}_{language}_{detail_level}"
CacheKey(name, language, detail_level) ==
    <<"biography", "_">> \o name \o <<"_">> \o language \o <<"_">> \o detail_level

\* ------------------------------------------------------------ specifications
\* What the cache directory / the Redis database may hold when the process
\* starts (now = 1): nothing, garbage, an entry that expired, one that has not.
InitContents ==
    IF backend = "file"
    THEN {Absent, Corrupt, Entry(0, 0), Entry(0, BiographyTTL)}
    ELSE {Absent, Corrupt, Entry(0, BiographyTTL)}

Init ==
    /\ backend \in Backends
    /\ now = 1
    /\ ticks = 0
    /\ \E c \in InitContents : store = [k \in Keys |-> IF k = "k1" THEN c ELSE Absent]
    /\ proc = [p \in Procs |-> IdleProc]
    /\ lockOf = [k \in Keys |-> 0]
    /\ lk = [i \in LockIds |-> FreeLock]
    /\ nlocks = 0
    /\ nfetch = [k \in Keys |-> 0]
    /\ last = NoLast
    /\ model = [k \in Keys |-> NoModel]
    /\ ip_requests = NoRecords
    /\ last_cleanup = now
    /\ reqs = [i \in Reqs |-> NewReq]
    /\ response = NoResponse
    /\ environ = NoEnviron
    /\ cache_manager = None
    /\ ninst = 0
    /\ got = <<>>
    /\ pipeIn = NoInput
    /\ pipeOut = NoResults

\* Concurrent get_biography calls on one BiographyService.
Next ==
    \/ \E p \in Procs, k \in Keys : Call(p, k)
    \/ \E p \in Procs : Resume(p)
    \/ \E p \in Procs : FetchOk(p)
    \/ \E p \in Procs : FetchFail(p)
    \/ \E p \in Procs : StrategyOk(p)
    \/ \E p \in Procs : StrategyFail(p)
    \/ \E p \in Procs : CacheStep(p)
    \/ TickDay

Spec == Init /\ [][Next]_vars

\* Concurrent get_biography calls on a service that is also closed.
NextClose ==
    \/ Next
    \/ Close

SpecClose == Init /\ [][NextClose]_vars

\* Concurrent get_biography calls whose callers may give up.
NextCancel ==
    \/ Next
    \/ \E p \in Procs : Cancel(p)

SpecCancel == Init /\ [][NextCancel]_vars

\* The event loop runs every coroutine that is ready, the thread pool and
\* the cache server finish every operation handed to them, and every upstream
\* call (article fetch, model calls) ends, with a result or an exception.
Fairness ==
    \A p \in Procs :
        /\ WF_vars(Resume(p))
        /\ WF_vars(CacheStep(p))
        /\ WF_vars(FetchOk(p) \/ FetchFail(p))
        /\ WF_vars(StrategyOk(p) \/ StrategyFail(p))

\* Concurrent get_biography calls within one day.
NextLive ==
    \/ \E p \in Procs, k \in Keys : Call(p, k)
    \/ \E p \in Procs : Resume(p)
    \/ \E p \in Procs : FetchOk(p)
    \/ \E p \in Procs : FetchFail(p)
    \/ \E p \in Procs : StrategyOk(p)
    \/ \E p \in Procs : StrategyFail(p)
    \/ \E p \in Procs : CacheStep(p)

SpecLive == Init /\ [][NextLive]_vars /\ Fairness

\* Concurrent get_biography calls for one subject with various parse modes
\* (3: the route's; 1: another strategy; 0: not supported), within one day.
NextModes ==
    \/ \E p \in Procs, m \in {0, 1, DefaultParseMode} : CallMode(p, "k1", m)
    \/ \E p \in Procs : Resume(p)
    \/ \E p \in Procs : FetchOk(p)
    \/ \E p \in Procs : FetchFail(p)
    \/ \E p \in Procs : StrategyOk(p)
    \/ \E p \in Procs : StrategyFail(p)
    \/ \E p \in Procs : CacheStep(p)

SpecModes == Init /\ [][NextModes]_vars

\* --------------------------------------------------- CacheManager.clear_expired
Count(n) == [t |-> "count", n |-> n]

\* os.listdir(self.cache_dir): the files there when the sweep starts, in any
\* order
ListDirs(st) ==
    LET present == {k \in Keys : FileExists(st, k)}
        n == Cardinality(present)
    IN {f \in [1..n -> present] : \A i, j \in 1..n : f[i] = f[j] => i = j}

\* the sweep goes on to the next file of its listing, or returns cleared_count
SweepNext(s, p) ==
    LET rest == Tail(s.proc[p].todo)
    IN IF rest = <<>>
       THEN Return([s EXCEPT !.proc[p].saw.rem = s.proc[p].rem], p, Count(s.proc[p].cnt))
       ELSE [s EXCEPT !.proc[p] = [@ EXCEPT !.todo = rest, !.ph = "sread", !.rd = Absent]]

\* Variant of SweepDelete: the file is counted and left in place.
SweepDeleteNot(s, p) ==
    SweepNext([s EXCEPT !.proc[p].cnt = @ + 1], p)

\* "await self._delete_cache_file(cache_path); cleared_count += 1"
SweepDelete(s, p) ==
    LET k == Head(s.proc[p].todo)
        was == DeleteCacheFileResult(s.store, k)
        s1 == RemoveFile(s, k)
    IN SweepNext([s1 EXCEPT !.proc[p].cnt = @ + 1,
                            !.proc[p].rem = @ + (IF was THEN 1 ELSE 0)], p)

\* clear_expired: aiofiles.open(cache_path, 'r') and f.read() of the current
\* file ran; a file that is gone raises, and the handler deletes and counts
SweepRead(p) ==
    /\ proc[p].ph = "sread"
    /\ LET k == Head(proc[p].todo)
       IN Becomes(IF FileExists(store, k)
                  THEN [Cur EXCEPT !.proc[p].ph = "sfin", !.proc[p].rd = store[k]]
                  ELSE SweepDelete(Cur, p))
    /\ UNCHANGED <<backend, now, ticks>>

\* clear_expired: the file is closed; a content that does not parse and an
\* expired entry are deleted and counted
SweepFin(p) ==
    /\ proc[p].ph = "sfin"
    /\ Becomes(IF ~JsonOk(proc[p].rd) \/ Expired(proc[p].rd, now)
               THEN SweepDelete(Cur, p)
               ELSE SweepNext(Cur, p))
    /\ UNCHANGED <<backend, now, ticks>>

\* cache.clear_expired() is called; the Redis one returns 0 at once
CSweep(p) ==
    /\ proc[p].pc = "idle"
    /\ \E files \in IF backend = "file" THEN ListDirs(store) ELSE {<<>>} :
       LET s1 == [Cur EXCEPT !.proc[p] =
                     [IdleProc EXCEPT !.pc = "csweep", !.todo = files,
                                      !.saw = [snap |-> store, t0 |-> now, rem |-> 0,
                                               had |-> {k \in Keys : model[k].set}]]]
       IN Becomes(IF files = <<>> THEN Return(s1, p, Count(0))
                  ELSE [s1 EXCEPT !.proc[p].ph = "sread"])
    /\ UNCHANGED <<backend, now, ticks>>

\* cache.set(key, data, expire) called while a sweep may be running (one
\* set call per key)
SSet(p, k, d, e) ==
    /\ proc[p].pc = "idle"
    /\ ~model[k].set
    /\ Becomes(CacheSetStart(
                 [Cur EXCEPT !.proc[p] = [IdleProc EXCEPT !.pc = "cset", !.key = k,
                                                          !.data = d, !.ttl = e,
                                                          !.saw = store[k]]], p))
    /\ UNCHANGED <<backend, now, ticks>>

\* ------------------------------------------------ direct cache operations
\* The client issues its operations one after another, all on one key (any
\* key: the first operation chooses it).
ClientIdle == \A q \in Procs : proc[q].pc = "idle"
ClientKey(k) == last.key \in {"-", k}

\* cache.get(key)
CGet(p, k) ==
    /\ ClientIdle
    /\ ClientKey(k)
    /\ LET s1 == [Cur EXCEPT !.proc[p] = [IdleProc EXCEPT !.pc = "cget", !.key = k,
                                                          !.saw = store[k]]]
       IN Becomes(IF GetSuspends(store, k)
                  THEN [s1 EXCEPT !.proc[p].ph = GetPh]
                  ELSE Return(s1, p, Miss))
    /\ UNCHANGED <<backend, now, ticks>>

\* cache.set(key, data, expire)
CSet(p, k, d, e) ==
    /\ ClientIdle
    /\ ClientKey(k)
    /\ Becomes(CacheSetStart(
                 [Cur EXCEPT !.proc[p] = [IdleProc EXCEPT !.pc = "cset", !.key = k,
                                                          !.data = d, !.ttl = e,
                                                          !.saw = store[k]]], p))
    /\ UNCHANGED <<backend, now, ticks>>

\* cache.delete(key): the file backend never suspends in it
CDelete(p, k) ==
    /\ ClientIdle
    /\ ClientKey(k)
    /\ LET s1 == [Cur EXCEPT !.proc[p] = [IdleProc EXCEPT !.pc = "cdel", !.key = k,
                                                          !.saw = store[k]]]
       IN Becomes(IF backend = "file"
                  THEN Return(RemoveFile(s1, k), p, Bool(DeleteCacheFileResult(store, k)))
                  ELSE [s1 EXCEPT !.proc[p].ph = "rdel"])
    /\ UNCHANGED <<backend, now, ticks>>

\* cache.get_cache_stats()
CStats(p) ==
    /\ ClientIdle
    /\ Becomes(Return([Cur EXCEPT !.proc[p] = [IdleProc EXCEPT !.pc = "cstats"]],
                      p, CacheStats(store, now)))
    /\ UNCHANGED <<backend, now, ticks>>

\* a second passes
Tick ==
    /\ ticks < MaxTicks
    /\ now' = now + 1
    /\ ticks' = ticks + 1
    /\ UNCHANGED <<backend, store, proc, lockOf, lk, nlocks, nfetch, last, model>>
    /\ UNCHANGED <<rateVars, factoryVars, pipeVars>>

\* One client calling the cache manager directly, one operation at a time.
NextCache ==
    \/ \E k \in Keys : CGet(1, k)
    \/ \E k \in Keys, d \in Values, e \in TTLs : CSet(1, k, d, e)
    \/ \E k \in Keys : CDelete(1, k)
    \/ CStats(1)
    \/ \E p \in Procs : CacheStep(p)
    \/ Tick

SpecCache == Init /\ [][NextCache]_vars

\* cache.delete(key) of the file backend: os.remove raised, the file stays
CDeleteFault(p, k) ==
    /\ ClientIdle
    /\ ClientKey(k)
    /\ backend = "file"
    /\ FileExists(store, k)
    /\ LET s1 == [Cur EXCEPT !.proc[p] = [IdleProc EXCEPT !.pc = "cdel", !.key = k,
                                                          !.saw = store[k]]]
       IN Becomes(Return(Faulted(s1, p), p, OnError("cdel")))
    /\ UNCHANGED <<backend, now, ticks>>

\* get_biography is called on a service whose cache nobody else has used
FCall(p, k) == last.op = "none" /\ Call(p, k)

\* The cache operations, called directly or by get_biography (whose pipeline
\* succeeds), with every I/O step free to fail.
NextFault ==
    \/ \E k \in Keys : CGet(1, k)
    \/ \E k \in Keys, d \in Values : CSet(1, k, d, NoTTL)
    \/ \E k \in Keys : CDelete(1, k)
    \/ \E k \in Keys : CDeleteFault(1, k)
    \/ \E p \in Procs, k \in Keys : FCall(p, k)
    \/ \E p \in Procs : Resume(p)
    \/ \E p \in Procs : FetchOk(p)
    \/ \E p \in Procs : StrategyOk(p)
    \/ \E p \in Procs : CacheStep(p)
    \/ \E p \in Procs : FileReadFault(p)
    \/ \E p \in Procs : FileGetFinFault(p)
    \/ \E p \in Procs : FileSetOpenFault(p)
    \/ \E p \in Procs : FileSetWriteFault(p)
    \/ \E p \in Procs : RedisFault(p)

SpecFault == Init /\ [][NextFault]_vars

\* One sweep and set calls of another coroutine, side by side.
NextSweep ==
    \/ CSweep(1)
    \/ SweepRead(1)
    \/ SweepFin(1)
    \/ \E k \in Keys, d \in Values, e \in {NoTTL, 1} : SSet(2, k, d, e)
    \/ FileSetOpen(2)
    \/ FileSetWrite(2)
    \/ RedisSetRpc(2)
    \/ Tick

SpecSweep == Init /\ [][NextSweep]_vars

\* cache.get(key) called while set calls of another coroutine may be running
RGet(p, k) ==
    /\ proc[p].pc = "idle"
    /\ LET s1 == [Cur EXCEPT !.proc[p] = [IdleProc EXCEPT !.pc = "cget", !.key = k,
                                                          !.saw = store[k]]]
       IN Becomes(IF GetSuspends(store, k)
                  THEN [s1 EXCEPT !.proc[p].ph = GetPh]
                  ELSE Return(s1, p, Miss))
    /\ UNCHANGED <<backend, now, ticks>>

\* get calls of one coroutine and set calls of another on the file backend,
\* side by side.
NextRace ==
    \/ \E k \in Keys : RGet(1, k)
    \/ FileRead(1)
    \/ FileGetFin(1)
    \/ \E k \in Keys, d \in Values, e \in {NoTTL, 1} : SSet(2, k, d, e)
    \/ FileSetOpen(2)
    \/ FileSetWrite(2)
    \/ Tick

InitFile == Init /\ backend = "file"
SpecRace == InitFile /\ [][NextRace]_vars

\* ------------------------------------------------------- the middleware stack
\* main.py adds CORSMiddleware, then RateLimiterMiddleware, then the name
\* validation with app.middleware("http").  add_middleware puts each one in
\* front of those added before, so a request meets the validation first, the
\* rate limiter second, and the route handler last.
Names == {"valid", "invalid"}

\* A request arrives: validate_person_name_middleware reads the body and checks
\* the name; an invalid name is answered 400 at once, otherwise call_next.
\* (The first client seen is called "a".)
Arrive(i, ip, name) ==
    /\ reqs[i].st = "new"
    /\ \A j \in Reqs : j < i => reqs[j].st # "new"
    /\ ip = "a" \/ \E j \in Reqs : reqs[j].ip = "a"
    /\ reqs' = [reqs EXCEPT ![i] =
                  [@ EXCEPT !.st = IF name = "invalid" THEN "done" ELSE "limiter",
                            !.ip = ip, !.name = name, !.validated = TRUE]]
    /\ response' = IF name = "invalid"
                   THEN Response(i, 400, NoHeaders, "validation")
                   ELSE response
    /\ UNCHANGED <<now, ip_requests, last_cleanup>>
    /\ UNCHANGED <<cacheVars, factoryVars, pipeVars>>

\* RateLimiterMiddleware.dispatch up to "await call_next(request)": cleanup,
\* the check of the client's window, and the 429 response if it is full
Dispatch(i) ==
    /\ reqs[i].st = "limiter"
    /\ LET c == CleanupExpiredRecords(ip_requests, last_cleanup, now)
           r == IsRateLimited(c.ipr, reqs[i].ip, now)
       IN /\ ip_requests' = r.ipr
          /\ last_cleanup' = c.lc
          /\ reqs' = [reqs EXCEPT ![i] =
                IF r.is_limited
                THEN [@ EXCEPT !.st = "done", !.checked = TRUE, !.at = now]
                ELSE [@ EXCEPT !.st = "handler", !.checked = TRUE, !.at = now,
                               !.admitted = TRUE, !.remaining = r.remaining]]
          /\ response' = IF r.is_limited
                         THEN Response(i, 429, RateLimitHeaders(r.remaining, now),
                                       "rate_limit")
                         ELSE response
    /\ UNCHANGED now
    /\ UNCHANGED <<cacheVars, factoryVars, pipeVars>>

\* call_next returned the response of the route (200, or the 500 of the
\* HTTPException); dispatch adds the headers and returns it
HandlerReturn(i, status) ==
    /\ reqs[i].st = "handler"
    /\ reqs' = [reqs EXCEPT ![i] =
                  [@ EXCEPT !.st = "done", !.handled = TRUE, !.remaining = 0]]
    /\ response' = Response(i, status, RateLimitHeaders(reqs[i].remaining, now),
                            "route")
    /\ UNCHANGED <<now, ip_requests, last_cleanup>>
    /\ UNCHANGED <<cacheVars, factoryVars, pipeVars>>

\* time.time() advances by a second
ClockTick ==
    /\ now < MaxClock
    /\ now' = now + 1
    /\ UNCHANGED <<rateVars, factoryVars, pipeVars>>
    /\ UNCHANGED <<cacheVars, factoryVars, pipeVars>>

\* HTTP requests of several clients going through the middleware stack.
NextRate ==
    \/ \E i \in Reqs, ip \in Clients, name \in Names : Arrive(i, ip, name)
    \/ \E i \in Reqs : Dispatch(i)
    \/ \E i \in Reqs, status \in {200, 500} : HandlerReturn(i, status)
    \/ ClockTick

InitRate == Init /\ backend = "file" /\ store = [k \in Keys |-> Absent]
SpecRate == InitRate /\ [][NextRate]_vars

\* ------------------------------------------------------- cache factory steps
MaxCalls == 3

\* get_cache_manager() is called (main.py lifespan, BiographyService.__init__)
GetCacheManager ==
    /\ Len(got) < MaxCalls
    /\ LET r == GetCacheManagerResult(cache_manager, environ, ninst)
       IN  /\ cache_manager' = r.cm
           /\ ninst' = r.n
           /\ got' = Append(got, [ret |-> r.ret, env |-> environ, made |-> r.n > ninst])
    /\ UNCHANGED <<environ, now>>
    /\ UNCHANGED <<cacheVars, rateVars, pipeVars>>

\* the configuration the next call will read
SetEnviron(e) ==
    /\ e # environ
    /\ environ' = e
    /\ UNCHANGED <<cache_manager, ninst, got, now>>
    /\ UNCHANGED <<cacheVars, rateVars, pipeVars>>

NextFactory ==
    \/ GetCacheManager
    \/ \E e \in Environs : SetEnviron(e)

SpecFactory == InitRate /\ [][NextFactory]_vars

\* ------------------------------------------------- extraction pipeline steps
\* an article arrives with the collaborators it will be processed with
Article(in) ==
    /\ pipeIn' = in
    /\ UNCHANGED <<pipeOut, now>>
    /\ UNCHANGED <<cacheVars, rateVars, factoryVars>>

\* parse_mode == 4
RunMode4 ==
    /\ pipeIn.t = "in"
    /\ pipeOut.m4 = NoOut
    /\ pipeOut' = [pipeOut EXCEPT !.m4 = ParseMode4(pipeIn)]
    /\ UNCHANGED <<pipeIn, now>>
    /\ UNCHANGED <<cacheVars, rateVars, factoryVars>>

\* parse_mode == 3
RunMode3 ==
    /\ pipeIn.t = "in"
    /\ pipeOut.m3 = NoOut
    /\ pipeOut' = [pipeOut EXCEPT !.m3 = ParseMode3(pipeIn)]
    /\ UNCHANGED <<pipeIn, now>>
    /\ UNCHANGED <<cacheVars, rateVars, factoryVars>>

NextPipe ==
    \/ pipeIn = NoInput /\ \E in \in Inputs : Article(in)
    \/ RunMode4
    \/ RunMode3

SpecPipe == InitRate /\ [][NextPipe]_vars

\* -------------------------------------------------- result validation steps
\* the reduce answer has been parsed
Parsed(result) ==
    /\ pipeIn' = result
    /\ UNCHANGED <<pipeOut, now>>
    /\ UNCHANGED <<cacheVars, rateVars, factoryVars>>

\* validated_result = self._validate_result(result)
RunValidate ==
    /\ pipeIn.t \in {"nokey", "result"}
    /\ pipeOut.validated = NoOut
    /\ pipeOut' = [pipeOut EXCEPT !.validated = ValidateResult(pipeIn)]
    /\ UNCHANGED <<pipeIn, now>>
    /\ UNCHANGED <<cacheVars, rateVars, factoryVars>>

NextValidate ==
    \/ pipeIn = NoInput /\ \E result \in ParsedResults : Parsed(result)
    \/ RunValidate

SpecValidate == InitRate /\ [][NextValidate]_vars

\* ------------------------------------------------------- request body steps
\* a request misses the cache and enters the try block
Request(rq) ==
    /\ pipeIn' = rq
    /\ UNCHANGED <<pipeOut, now>>
    /\ UNCHANGED <<cacheVars, rateVars, factoryVars>>

\* the try block runs to its end
RunBody ==
    /\ pipeIn.t = "req"
    /\ pipeOut.body = NoOut
    /\ pipeOut' = [pipeOut EXCEPT !.body = GetBiographyTry(pipeIn)]
    /\ UNCHANGED <<pipeIn, now>>
    /\ UNCHANGED <<cacheVars, rateVars, factoryVars>>

\* _parse_mode_1 on the article of the request
RunMode1 ==
    /\ pipeIn.t = "req"
    /\ pipeIn.fetch = "ok"
    /\ pipeOut.m1 = NoOut
    /\ pipeOut' = [pipeOut EXCEPT !.m1 = ParseMode1(pipeIn)]
    /\ UNCHANGED <<pipeIn, now>>
    /\ UNCHANGED <<cacheVars, rateVars, factoryVars>>

NextBody ==
    \/ pipeIn = NoInput /\ \E rq \in Requests : Request(rq)
    \/ RunBody
    \/ RunMode1

SpecBody == InitRate /\ [][NextBody]_vars

\* ----------------------------------------------------------- cache key steps
\* two requests arrive
TwoRequests(r1, r2) ==
    /\ pipeIn' = [t |-> "pair", r1 |-> r1, r2 |-> r2]
    /\ UNCHANGED <<pipeOut, now>>
    /\ UNCHANGED <<cacheVars, rateVars, factoryVars>>

\* get_biography builds the cache key of each
RunKey ==
    /\ pipeIn.t = "pair"
    /\ pipeOut.keys = NoOut
    /\ pipeOut' = [pipeOut EXCEPT !.keys =
          [t |-> "keys",
           k1 |-> CacheKey(pipeIn.r1.name, pipeIn.r1.language, pipeIn.r1.detail_level),
           k2 |-> CacheKey(pipeIn.r2.name, pipeIn.r2.language, pipeIn.r2.detail_level)]]
    /\ UNCHANGED <<pipeIn, now>>
    /\ UNCHANGED <<cacheVars, rateVars, factoryVars>>

NextKey ==
    \/ pipeIn = NoInput /\ \E r1, r2 \in Triples : TwoRequests(r1, r2)
    \/ RunKey

SpecKey == InitRate /\ [][NextKey]_vars

\* ------------------------------------------------------ paragraph merge steps
\* the stripped non-empty paragraphs of an article
MaxMergeParas == 5
ParagraphLists == UNION {[1..n -> ParaKinds \ {"blank"}] : n \in 0..MaxMergeParas}
Paragraphs(text) ==
    /\ pipeIn' = [t |-> "paras", text |-> text]
    /\ UNCHANGED <<pipeOut, now>>
    /\ UNCHANGED <<cacheVars, rateVars, factoryVars>>

\* paragraphs = self._merge_short_paragraphs(raw_paragraphs)
RunMerge ==
    /\ pipeIn.t = "paras"
    /\ pipeOut.merged = NoOut
    /\ pipeOut' = [pipeOut EXCEPT !.merged =
          [t |-> "chunks",
           chunks |-> MergeShortParagraphs(pipeIn.text,
                                           [i \in 1..Len(pipeIn.text) |-> i])]]
    /\ UNCHANGED <<pipeIn, now>>
    /\ UNCHANGED <<cacheVars, rateVars, factoryVars>>

NextMerge ==
    \/ pipeIn = NoInput /\ \E text \in ParagraphLists : Paragraphs(text)
    \/ RunMerge

SpecMerge == InitRate /\ [][NextMerge]_vars

\* ------------------------------------------------------- per-chunk cap steps
\* an article has been split into c chunks
Split(c) ==
    /\ pipeIn' = [t |-> "chunks", c |-> c]
    /\ UNCHANGED <<pipeOut, now>>
    /\ UNCHANGED <<cacheVars, rateVars, factoryVars>>

\* _parse_mode_3 computes the cap it tells every paragraph
RunCap3 ==
    /\ pipeIn.t = "chunks"
    /\ pipeOut.cap3 = NoCap
    /\ pipeOut' = [pipeOut EXCEPT !.cap3 = MaxTrajectoriesPerParagraph(pipeIn.c)]
    /\ UNCHANGED <<pipeIn, now>>
    /\ UNCHANGED <<cacheVars, rateVars, factoryVars>>

\* _split_documents computes the cap it stores with every document
RunCap4 ==
    /\ pipeIn.t = "chunks"
    /\ pipeOut.cap4 = NoCap
    /\ pipeOut' = [pipeOut EXCEPT !.cap4 = CalculateMaxTrajectories(pipeIn.c)]
    /\ UNCHANGED <<pipeIn, now>>
    /\ UNCHANGED <<cacheVars, rateVars, factoryVars>>

NextCap ==
    \/ pipeIn = NoInput /\ \E c \in 1..MaxChunks : Split(c)
    \/ RunCap3
    \/ RunCap4

SpecCap == InitRate /\ [][NextCap]_vars






\* ------------------------------------------------------------------ claims
\* The calls for key k that run the pipeline, or have run it.
InFlight(k) ==
    {p \in Procs : proc[p].key = k /\ proc[p].pc \in {"fetch", "strategy"}}
Fetched(k) == {p \in Procs : proc[p].key = k /\ proc[p].fetched}
Failed(k) == {p \in Procs : proc[p].key = k /\ proc[p].out.t = "error"}

\* C1: for every cache key, at most one pipeline invocation (article fetch and
\* extraction strategy) is in flight at any instant.
C1_OneInFlight == \A k \in Keys : Cardinality(InFlight(k)) <= 1

\* A pipeline runs for k1 with a same-key caller queued behind it, while
\* another pipeline runs for k2.
C1_Witness ==
    \E p, q, r \in Procs :
        /\ p \in InFlight("k1") /\ r \in InFlight("k2")
        /\ proc[q].key = "k1" /\ proc[q].pc = "wait"

\* The calls for k issued before any call for k had completed.
Batch(k) == {p \in Procs : proc[p].key = k /\ proc[p].conc}

\* C2: the calls for one key issued before the first of them completes result
\* in exactly one pipeline invocation (the pipeline does not fail, and less
\* than the entry's lifetime passes): never more than one, and one as soon as
\* a call has returned something else than an entry that was there before.
C2_ExactlyOne ==
    \A k \in Keys :
        (ticks = 0 /\ Failed(k) = {}) =>
            LET n == Cardinality(Batch(k) \cap Fetched(k))
            IN /\ n <= 1
               /\ (\E p \in Batch(k) : proc[p].pc = "done" /\ proc[p].out.data # 0)
                     => n = 1

\* C3: a call that waited on the lock of its key, once it has the lock, finds
\* in the cache what the computing caller wrote before releasing: it returns
\* that caller's result and does not run the pipeline itself (the pipeline
\* does not fail, and less than the entry's lifetime passes).
C3_WaiterGetsResult ==
    \A w \in Procs :
        (/\ proc[w].waited /\ proc[w].pc = "done"
         /\ ticks = 0 /\ Failed(proc[w].key) = {}) =>
            /\ ~proc[w].fetched
            /\ \E q \in Fetched(proc[w].key) \ {w} :
                  /\ proc[q].out = Ok(proc[q].data, "computed")
                  /\ proc[w].out.data = proc[q].data

\* C4: when the pipeline of a call fails, the call ends with the service
\* error, the store is as it was, and the call no longer holds the lock (the
\* first waiter, if any, owns it); a call issued after the failure is never
\* answered with anything older than a pipeline run started after the failure.
FailureStep(p) ==
    /\ proc[p].pc \in {"fetch", "strategy"}
    /\ proc'[p].pc = "done"
C4_Failure ==
    /\ [][\A p \in Procs : FailureStep(p) =>
             /\ proc'[p].out = Err("LLMError", "BIOGRAPHY_EXTRACTION_FAILED")
             /\ store' = store
             /\ lk'[proc[p].lock].holder # p
             /\ lk[proc[p].lock].waiters # <<>> =>
                   lk'[proc[p].lock].holder = Head(lk[proc[p].lock].waiters)]_vars
    /\ [](\A p \in Procs : proc[p].pc = "done" =>
             \A id \in LockIds : lk[id].holder # p)
    /\ [](\A q \in Procs :
             (proc[q].after >= 1 /\ proc[q].pc = "done" /\ proc[q].out.t = "ok")
                => proc[q].out.data > proc[q].after)

\* A call issued after a failed pipeline for its key has run the pipeline
\* again and returned its own result.
C4_Witness ==
    \E p, q \in Procs :
        /\ proc[p].out = Err("LLMError", "BIOGRAPHY_EXTRACTION_FAILED")
        /\ proc[q].key = proc[p].key /\ proc[q].after = proc[p].data
        /\ proc[q].fetched /\ proc[q].out = Ok(proc[q].data, "computed")

\* C5: callers for different keys never block each other: each key has a lock
\* of its own, and a call that waits, waits for a call on its own key.
C5_KeysIndependent ==
    /\ \A j, k \in Keys : (j # k /\ lockOf[j] # 0) => lockOf[j] # lockOf[k]
    /\ \A p \in Procs :
          proc[p].pc = "wait" =>
              LET h == lk[proc[p].lock].holder
              IN h # 0 /\ proc[h].key = proc[p].key

\* While the pipeline for k1 runs under its lock, with a caller waiting for
\* it, a call for k2 issued later has its own lock and runs its pipeline.
C5_Witness ==
    \E p, q, r \in Procs :
        /\ p < r /\ q < r
        /\ proc[p].key = "k1" /\ proc[p].pc = "fetch" /\ lk[lockOf["k1"]].holder = p
        /\ proc[q].key = "k1" /\ proc[q].pc = "wait"
        /\ proc[r].key = "k2" /\ proc[r].pc = "fetch" /\ lk[lockOf["k2"]].holder = r

\* The values that a set call for k has been given, and the value of an entry
\* that was there at the start.
Written(k) ==
    {0} \cup {proc[q].data : q \in {r \in Fetched(k) :
                 \/ proc[r].pc = "set"
                 \/ proc[r].out = Ok(proc[r].data, "computed")}}

\* C6: a cache read never hands out a half-written entry: what a get returns
\* is a miss or a complete value that some set for the key was given.
C6_NoTornRead ==
    \A p \in Procs :
        /\ (proc[p].ph = "fin" /\ FileGetResult(proc[p].rd, now).ret.t = "hit")
              => FileGetResult(proc[p].rd, now).ret.data \in Written(proc[p].key)
        /\ (proc[p].out.t = "ok" /\ proc[p].out.src \in {"cache1", "cache2"})
              => proc[p].out.data \in Written(proc[p].key)

\* A get read the file while a set had it open and empty, and returned a miss:
\* the caller went on to the lock.
C6_Witness ==
    \E p, q \in Procs :
        /\ proc[q].key = proc[p].key /\ proc[q].pc = "set" /\ proc[q].ph = "write"
        /\ store[proc[p].key] = Corrupt
        /\ proc[p].pc = "wait" /\ proc[p].conc /\ ~proc[q].conc


\* ===================================================================== claims
\* What a delete(key) called now would return, and whether stats counts key.
DeleteWouldReturn(k) ==
    IF backend = "file" THEN DeleteCacheFileResult(store, k) ELSE RedisLive(store[k], now)
Counted(k) == IF backend = "file" THEN FileExists(store, k) ELSE RedisLive(store[k], now)
StatsOmits(k) ==
    CacheStats(store, now).total = Cardinality({j \in Keys \ {k} : Counted(j)})

\* The last operation that returned is a get on a key that a completed set
\* wrote (and no delete since); Elapsed: seconds from that set to the get.
GetAfterSet == last.op = "cget" /\ model[last.key].set
Elapsed == last.at - model[last.key].t0

\* C7: after set(key, v, ttl), for every ttl, get(key) returns v while less
\* than ttl seconds have elapsed and absent once more than ttl seconds have
\* elapsed (what it returns at the very second of the expiry is left open).
C7_GetAfterSet ==
    (GetAfterSet /\ model[last.key].ttl # NoTTL) =>
        LET m == model[last.key]
        IN /\ Elapsed < m.ttl => last.ret = Hit(m.data)
           /\ Elapsed > m.ttl => last.ret = Miss

\* C8: a get on an entry whose content is not parseable JSON returns absent
\* and removes the entry, so that stats no longer counts it.
C8_CorruptRemoved ==
    (last.op = "cget" /\ last.saw = Corrupt /\ ClientIdle) =>
        /\ last.ret = Miss
        /\ ~Counted(last.key)
        /\ StatsOmits(last.key)

\* C9: a get on an expired entry returns absent and the entry is gone
\* afterwards: a following delete returns false, stats does not count it.
C9_ExpiredEvicted ==
    (last.op = "cget" /\ last.saw.t = "entry" /\ Expired(last.saw, last.at) /\ ClientIdle) =>
        /\ last.ret = Miss
        /\ ~DeleteWouldReturn(last.key)
        /\ StatsOmits(last.key)

C9_Witness ==
    /\ backend = "file"
    /\ last.op = "cget" /\ last.saw.t = "entry" /\ Expired(last.saw, last.at)
    /\ ClientIdle
    /\ store[last.key] = Absent
    /\ \E j \in Keys : Counted(j)

\* The set before the last one wrote an entry that the last set replaced.
Overwritten == GetAfterSet /\ model[last.key].pexp # NoPrev

\* C10: set overwrites the prior entry, its expiry included: after
\* set(v1, ttl1) then set(v2, none) get returns v2 at every later time; after
\* set(v1, none) then set(v2, ttl2) the entry expires after ttl2.
C10_Overwrite ==
    Overwritten =>
        LET m == model[last.key]
        IN /\ m.ttl = NoTTL => last.ret = Hit(m.data)
           /\ (m.pexp = NoExpire /\ m.ttl # NoTTL /\ Elapsed > m.ttl) => last.ret = Miss

\* An entry is stored under the key: the file is there / the server has the key.
Existed(c, t) == IF backend = "file" THEN c.t # "absent" ELSE RedisLive(c, t)

\* C11: delete(key) returns true exactly when an entry was stored under the
\* key and this call removed it; a delete that follows a delete returns
\* false, and a get that follows a delete returns absent.
C11_Delete ==
    /\ last.op = "cdel" =>
          /\ last.ret = Bool(Existed(last.saw, last.at))
          /\ ClientIdle => ~Counted(last.key)
          /\ last.prev = "cdel" => last.ret = Bool(FALSE)
    /\ (last.op = "cget" /\ last.prev = "cdel") => last.ret = Miss

\* A delete that followed a set found the entry, removed it and returned true.
C11_Witness ==
    /\ last.op = "cdel" /\ last.prev = "cset" /\ last.ret = Bool(TRUE)
    /\ last.saw.t = "entry" /\ ClientIdle
    /\ store[last.key] = Absent

\* A set call on k is under way, or has completed since the last sweep began.
SetActive(k) == \E p \in Procs : proc[p].pc = "cset" /\ proc[p].key = k
SetSince(k) == SetActive(k) \/ (model[k].set /\ k \notin last.saw.had)

\* C12: the disk sweep removes every expired entry, returns the number of
\* entries it removed and leaves every unexpired entry, key and value, as it
\* was, also with set calls on other entries running beside it; the Redis
\* sweep changes nothing and returns 0.
C12_Sweep ==
    (last.op = "csweep" /\ \A p \in Procs : proc[p].pc # "csweep") =>
        /\ last.ret = Count(IF backend = "file" THEN last.saw.rem ELSE 0)
        /\ \A k \in Keys :
              LET c == last.saw.snap[k]
              IN \/ SetSince(k)
                 \/ /\ (backend = "file" /\ c.t = "entry" /\ Expired(c, last.saw.t0))
                          => store[k] = Absent
                    /\ (c.t = "entry" /\ ~Expired(c, last.at)) => store[k] = c
                    /\ backend = "redis" => store[k] = c

\* A sweep has removed the one expired entry and returned 1, the unexpired
\* entry is as it was, and a set call on the first key completed meanwhile.
C12_Witness ==
    /\ last.op = "csweep" /\ backend = "file" /\ last.ret = Count(1)
    /\ \A p \in Procs : proc[p].pc # "csweep"
    /\ \E k, j \in Keys :
          /\ last.saw.snap[k].t = "entry" /\ Expired(last.saw.snap[k], last.saw.t0)
          /\ model[k].set /\ k \notin last.saw.had /\ store[k].t = "entry"
          /\ last.saw.snap[j].t = "entry" /\ ~Expired(last.saw.snap[j], last.at)
          /\ store[j] = last.saw.snap[j]

\* C13: a failing cache never fails a request: a get that meets an error
\* returns absent, a set or a delete that meets one returns false, none of
\* them raises, and a get_biography call whose pipeline succeeds returns its
\* result, the computed one when all its cache operations failed.
C13_CacheFaults ==
    /\ last.flt => last.ret = (IF last.op = "cget" THEN Miss ELSE Bool(FALSE))
    /\ \A p \in Procs :
          proc[p].pc = "done" =>
              /\ proc[p].out.t = "ok"
              /\ proc[p].fetched => proc[p].out = Ok(proc[p].data, "computed")
              /\ proc[p].nflt = 3 => proc[p].fetched

\* Both cache checks and the cache write of a call failed, and the call
\* returned what it computed.
C13_Witness ==
    \E p \in Procs :
        /\ proc[p].pc = "done" /\ proc[p].nflt = 3
        /\ proc[p].out = Ok(proc[p].data, "computed")

\* Request i was answered 429 by the rate limiter.
Rejected(i) == reqs[i].st = "done" /\ reqs[i].checked /\ ~reqs[i].admitted

\* The requests of the client of request i admitted less than a window
\* before now.
AdmittedInSpan(i) ==
    {j \in Reqs : /\ reqs[j].admitted /\ reqs[j].ip = reqs[i].ip
                  /\ now - reqs[j].at < WindowSize}

\* C14: with limit N and window W, a request is admitted exactly when fewer
\* than N requests of its client were admitted in the W seconds before it: of
\* the requests in any span of W seconds the first N are admitted and the
\* next one is rejected, and one sent more than W seconds later is admitted.
C14_SlidingWindow ==
    [][\A i \in Reqs :
          (reqs[i].st = "limiter" /\ reqs'[i].st # "limiter") =>
              (reqs'[i].admitted <=> Cardinality(AdmittedInSpan(i)) < RequestsPerMinute)]_vars

\* One client: N requests admitted, the next one rejected within the window,
\* and one admitted again more than a window later.
C14_Witness ==
    \E ip \in Clients, i, j \in Reqs :
        /\ Cardinality({k \in Reqs : reqs[k].ip = ip /\ reqs[k].admitted
                                       /\ reqs[k].at = 1}) = RequestsPerMinute
        /\ reqs[i].ip = ip /\ Rejected(i) /\ reqs[i].at - 1 < WindowSize
        /\ reqs[j].ip = ip /\ reqs[j].admitted /\ reqs[j].at - reqs[i].at > WindowSize

\* C15: whatever the interleaving of the requests in flight, the timestamps
\* recorded for a client within the current window never exceed the limit.
C15_WindowBound ==
    \A ip \in DOMAIN ip_requests :
        Len(ValidTimestamps(ip_requests[ip], now - WindowSize)) <= RequestsPerMinute

\* The window of a client is full with its requests still in the handler,
\* another request of the client was rejected, and the cleanup has run.
C15_Witness ==
    \E ip \in DOMAIN ip_requests :
        /\ Len(ValidTimestamps(ip_requests[ip], now - WindowSize)) = RequestsPerMinute
        /\ Cardinality({i \in Reqs : reqs[i].ip = ip /\ reqs[i].st = "handler"})
              = RequestsPerMinute
        /\ response.status = 429 /\ reqs[response.req].ip = ip
        /\ last_cleanup > 1

\* C16: every response, admitted or rejected, the error responses of the
\* other middleware included, carries the limit, remaining, reset and window
\* headers; a rate-limit rejection has status 429.
C16_HeadersOnEveryResponse ==
    response # NoResponse =>
        /\ response.headers # NoHeaders
        /\ response.headers.limit = RequestsPerMinute
        /\ response.headers.window = WindowSize
        /\ response.headers.remaining \in 0..RequestsPerMinute
        /\ response.headers.reset >= now
        /\ Rejected(response.req) <=> (response.status = 429 /\ response.body = "rate_limit")

\* C17: every request is checked and counted by the rate limiter before the
\* name validation or the handler run, and a rejected request reaches none.
C17_LimiterFirst ==
    \A i \in Reqs :
        /\ (reqs[i].validated \/ reqs[i].handled) => reqs[i].checked
        /\ Rejected(i) => ~reqs[i].handled

\* C18: the cache selector is a lazy singleton. Over any sequence of
\* get_cache_manager calls at most one cache manager is constructed, it is
\* constructed by the first call that returns, and every call that returns
\* returns that same object, whatever the configuration has become.
C18_LazySingleton ==
    /\ ninst <= 1
    /\ \A i \in 1..Len(got) : \A j \in 1..Len(got) :
          (got[i].ret.t = "inst" /\ got[j].ret.t = "inst") => got[i].ret = got[j].ret
    /\ \A i \in 1..Len(got) :
          got[i].made <=> (got[i].ret.t = "inst" /\ \A j \in 1..(i - 1) : got[j].ret.t = "raise")
    /\ \A i \in 1..Len(got) : got[i].ret.t = "inst" => cache_manager = got[i].ret

\* two calls under configurations that select different backends returned
\* the same object
C18_Witness ==
    /\ Len(got) >= 2
    /\ got[1].ret.t = "inst"
    /\ got[1].ret.kind.t = "file"
    /\ got[2].ret = got[1].ret
    /\ Lower(got[2].env.CACHE_TYPE) = "redis"
    /\ got[2].env.redis_pkg

\* C19: backend selection order. For every call that ran the selection: an
\* explicit CACHE_TYPE of redis or file decides (redis is built or its
\* exception propagates; file is built); otherwise, with a REDIS_URL present
\* the Redis manager on that URL is built, or the file manager if building it
\* raised; otherwise the file manager is built.
Selecting(i) == got[i].made \/ got[i].ret.t = "raise"
C19_SelectionOrder ==
    \A i \in 1..Len(got) : Selecting(i) =>
        LET e == got[i].env
            r == got[i].ret
        IN  IF Lower(e.CACHE_TYPE) = "redis"
            THEN IF e.redis_pkg THEN r.t = "inst" /\ r.kind.t = "redis" ELSE r.t = "raise"
            ELSE IF Lower(e.CACHE_TYPE) = "file"
            THEN r.t = "inst" /\ r.kind.t = "file"
            ELSE IF e.REDIS_URL # ""
            THEN /\ r.t = "inst"
                 /\ r.kind = (IF e.redis_pkg
                              THEN [t |-> "redis", url |-> e.REDIS_URL]
                              ELSE [t |-> "file"])
            ELSE r.t = "inst" /\ r.kind.t = "file"

\* the fallback happened, and an override beat a connection string
C19_Witness ==
    /\ Len(got) >= 2
    /\ got[1].ret.t = "raise"
    /\ got[2].made
    /\ got[2].env.CACHE_TYPE = "memory"
    /\ got[2].env.REDIS_URL # ""
    /\ ~got[2].env.redis_pkg
    /\ got[2].ret.kind.t = "file"

\* C20: fallback equivalence. Whenever the semantic-chunked-with-reduce
\* strategy fails (the processor is not initialised, the split, a map call or
\* the reduce call raises, or no trajectory point is produced), what it
\* returns is what concurrent-chunked returns on the same article with the
\* same model.
MapRaised(in) ==
    /\ in.processor
    /\ RawParagraphs(in.text) # <<>>
    /\ in.split = "ok"
    /\ \E i \in 1..Len(in.text) : in.text[i] \in {"short", "long"} /\ in.llm.map[i] = "raise"
Mode4Failed(in) ==
    \/ ~in.processor
    \/ MapRaised(in)
    \/ ProcessBiography(in) # "ok"
FallbackWhenNoResult ==
    (pipeIn # NoInput /\ pipeOut.m4 # NoOut /\ pipeOut.m3 # NoOut
       /\ (~pipeIn.processor \/ ProcessBiography(pipeIn) # "ok"))
        => pipeOut.m4 = pipeOut.m3

\* C21: in both chunked strategies a chunk call that raises is isolated. The
\* concurrent-chunked strategy on an article with paragraphs fails only if
\* every chunk call raised, and otherwise returns the merge of the chunks
\* whose call did not raise; the map step of semantic-chunked keeps the
\* outputs of the map calls that did not raise.
C21_ChunkFailureIsolated ==
    (pipeIn.t = "in" /\ pipeOut.m3 # NoOut /\ RawParagraphs(pipeIn.text) # <<>>) =>
        LET chunks == MergeShortParagraphs(pipeIn.text, RawParagraphs(pipeIn.text))
        IN  /\ pipeOut.m3 = Raised <=>
                  \A i \in 1..Len(chunks) : ChatReply(pipeIn.llm, chunks[i]) = "raise"
            /\ pipeOut.m3 # Raised =>
                  pipeOut.m3.trajectory = MergeResponses(pipeIn.llm, chunks, 1)
            /\ \A d \in 1..Len(pipeIn.text) :
                  (pipeIn.text[d] \in {"short", "long"} /\ pipeIn.llm.map[d] = "ok") =>
                      \E j \in 1..Len(MapDocuments(pipeIn.llm, SplitDocuments(pipeIn.text))) :
                          MapDocuments(pipeIn.llm, SplitDocuments(pipeIn.text))[j] = d

\* C22: deduplication keeps, for every (time, location) pair occurring in the
\* input list, exactly the first point with that pair (a missing entry
\* counting as the empty string), in the order of first appearance; items
\* that are not points are dropped.
FirstOfPair(data) ==
    {i \in 1..Len(data) :
        /\ data[i].t = "dict"
        /\ \A j \in 1..(i - 1) : data[j].t = "dict" => DedupKey(data[j]) # DedupKey(data[i])}
Nth(idx, k) == CHOOSE i \in idx : Cardinality({j \in idx : j <= i}) = k
C22_DedupFirstWins ==
    (pipeIn.t = "result" /\ pipeOut.validated # NoOut) =>
        LET data == pipeIn.trajectory
            out == pipeOut.validated.trajectory
            idx == FirstOfPair(data)
        IN  /\ Len(out) = Cardinality(idx)
            /\ \A k \in 1..Len(out) : out[k] = data[Nth(idx, k)]

\* [(1990,A), (1990,A), (1991,B)] yields two entries, A then B
C22_Witness ==
    /\ pipeIn.t = "result"
    /\ pipeIn.trajectory = <<Point("1990", "A", "x"), Point("1990", "A", "y"),
                             Point("1991", "B", "x")>>
    /\ pipeOut.validated # NoOut
    /\ pipeOut.validated.trajectory = <<Point("1990", "A", "x"), Point("1991", "B", "x")>>

\* C23: the trajectory returned by the concurrent-chunked strategy contains
\* no two points with the same (time, location).
C23_Mode3Deduplicated ==
    (pipeIn.t = "in" /\ pipeOut.m3 # NoOut /\ pipeOut.m3 # Raised) =>
        LET out == pipeOut.m3.trajectory
        IN  \A i \in 1..Len(out) : \A j \in 1..Len(out) :
                i # j => EventKey(pipeIn, out[i]) # EventKey(pipeIn, out[j])

\* C24: malformed output of a single chunk (not JSON, or JSON that is not an
\* object of the expected shape) never makes the strategy raise: the
\* concurrent-chunked strategy raises only if a chunk call raised, and
\* process_biography does not raise on a reduce answer that is unparsable,
\* empty or not an object.
C24_MalformedNeverRaises ==
    /\ (pipeIn.t = "in" /\ pipeOut.m3 # NoOut /\ RawParagraphs(pipeIn.text) # <<>>
          /\ \A i \in 1..Len(pipeIn.text) : pipeIn.llm.chat[i] # "raise")
          => pipeOut.m3 # Raised
    /\ (pipeIn.t = "in" /\ pipeOut.m4 # NoOut /\ pipeIn.processor
          /\ RawParagraphs(pipeIn.text) # <<>> /\ pipeIn.split = "ok"
          /\ pipeIn.llm.reduce \in {"bad", "empty", "list"})
          => ProcessBiography(pipeIn) # "raise"

\* C25: a failed get_biography request (fetch failure, strategy failure,
\* unsupported strategy, or a trajectory point that cannot be converted) ends
\* in one error carrying a machine-readable code and a message, and nothing
\* was written to the cache; a request that returns a result returns one
\* whose coordinates and descriptions cover every point of the trajectory.
ShouldFail(rq) ==
    \/ rq.fetch # "ok"
    \/ rq.parse_mode \notin 1..4
    \/ rq.extraction = "raise"
    \/ \E i \in 1..Len(rq.trajectory) :
          \/ rq.trajectory[i].kind = "notime"
          \/ rq.trajectory[i].kind = "nocoords" /\ rq.parse_mode # 1
C25_FailureIsOneError ==
    (pipeIn.t = "req" /\ pipeOut.body # NoOut) =>
        LET r == pipeOut.body
        IN  IF ShouldFail(pipeIn)
            THEN /\ r.out.t = "error"
                 /\ r.out.code # ""
                 /\ r.out.message # ""
                 /\ ~r.set
            ELSE /\ r.out.t = "ok"
                 /\ Len(r.out.coordinates) = Len(pipeIn.trajectory)
                 /\ Len(r.out.descriptions) = Len(pipeIn.trajectory)
                 /\ r.set

\* a request fails on its third point, after two convertible ones
C25_Witness ==
    /\ pipeIn.t = "req"
    /\ pipeOut.body # NoOut
    /\ Len(pipeIn.trajectory) = 3
    /\ pipeIn.trajectory[1].kind = "good"
    /\ pipeIn.trajectory[2].kind = "good"
    /\ pipeIn.trajectory[3].kind = "notime"
    /\ pipeOut.body.out.t = "error"
    /\ ~pipeOut.body.set

\* C26: a failure of the article fetch reaches the caller of get_biography as
\* an upstream-fetch failure, distinguishable from an extraction failure,
\* after exactly one fetch and without any model call.
C26_FetchFailureDistinct ==
    (pipeIn.t = "req" /\ pipeOut.body # NoOut /\ pipeIn.fetch # "ok") =>
        /\ pipeOut.body.out.t = "error"
        /\ pipeOut.body.out.type = "WikipediaError"
        /\ pipeOut.body.out.code # "BIOGRAPHY_EXTRACTION_FAILED"
        /\ pipeOut.body.fetches = 1
        /\ ~pipeOut.body.llm_called

\* C30: the serial-per-place strategy issues exactly 1 + D model calls, D
\* being the number of distinct places in the trajectory of the first call.
C30_SerialCalls ==
    (pipeIn.t = "req" /\ pipeOut.m1 # NoOut /\ pipeOut.m1.t = "ok") =>
        pipeOut.m1.calls =
            1 + Cardinality({pipeIn.trajectory[i].place : i \in 1..Len(pipeIn.trajectory)} \ {""})

\* C27: for every chunk count c >= 1 the cap told to each chunk equals
\* max(1, min(perChunkCap, totalTarget div c)) in both chunked strategies, so
\* 1 <= cap <= perChunkCap; the aggregate cap * c does not exceed totalTarget
\* as long as c does not, and equals c beyond that.
CapDone == pipeIn.t = "chunks" /\ pipeOut.cap3 # NoCap /\ pipeOut.cap4 # NoCap
CapIs(cap, perChunkCap, totalTarget, c) ==
    /\ cap = (IF totalTarget \div c < 1 THEN 1
              ELSE IF totalTarget \div c > perChunkCap THEN perChunkCap
              ELSE totalTarget \div c)
    /\ 1 <= cap
    /\ cap <= perChunkCap
C27_CapFormula ==
    CapDone =>
        /\ CapIs(pipeOut.cap3, 10, 30, pipeIn.c)
        /\ CapIs(pipeOut.cap4, 10, 40, pipeIn.c)
        /\ pipeIn.c <= 30 => pipeOut.cap3 * pipeIn.c <= 30
        /\ pipeIn.c <= 40 => pipeOut.cap4 * pipeIn.c <= 40
        /\ pipeIn.c > 30 => pipeOut.cap3 * pipeIn.c = pipeIn.c
        /\ pipeIn.c > 40 => pipeOut.cap4 * pipeIn.c = pipeIn.c

\* more chunks than the total target: the cap is held at 1
C27_Witness ==
    /\ CapDone
    /\ pipeIn.c > 40
    /\ pipeOut.cap3 = 1
    /\ pipeOut.cap4 = 1

\* C27 as stated: the aggregate cap * c never exceeds totalTarget
C27_AggregateBounded ==
    CapDone =>
        /\ CapIs(pipeOut.cap3, 10, 30, pipeIn.c)
        /\ CapIs(pipeOut.cap4, 10, 40, pipeIn.c)
        /\ pipeOut.cap3 * pipeIn.c <= 30
        /\ pipeOut.cap4 * pipeIn.c <= 40

\* C28: in the concurrent-chunked strategy every paragraph shorter than the
\* minimum length is merged into the paragraph that follows it, so that no
\* chunk dispatched for extraction is shorter than the minimum length.
C28_NoShortChunk ==
    (pipeIn.t = "in" /\ pipeOut.m3 # NoOut /\ RawParagraphs(pipeIn.text) # <<>>) =>
        LET chunks == MergeShortParagraphs(pipeIn.text, RawParagraphs(pipeIn.text))
        IN  \A i \in 1..Len(chunks) : ChunkLen(pipeIn.text, chunks[i]) >= 200

\* C29: the housekeeping sweep of the rate limiter is lazy and time-gated. It
\* runs only while a request is dispatched and only when at least the sweep
\* interval has passed since the previous sweep; it removes exactly the
\* client records with no timestamp inside the current window, no step ever
\* removes a timestamp that is inside the window, and the admission decision
\* is the one the records before the sweep give.
Dispatched(i) == reqs[i].st = "limiter" /\ reqs'[i].st # "limiter"
InWindow(ip) == ValidTimestamps(ip_requests[ip], now - WindowSize)
IsPrefix(a, b) == Len(a) <= Len(b) /\ \A n \in 1..Len(a) : a[n] = b[n]
C29_LazySweep ==
    [][/\ last_cleanup' # last_cleanup =>
             /\ \E i \in Reqs : Dispatched(i)
             /\ now - last_cleanup >= CleanupInterval
             /\ last_cleanup' = now
             /\ \A ip \in DOMAIN ip_requests :
                   ip \notin DOMAIN ip_requests' <=>
                       /\ InWindow(ip) = <<>>
                       /\ ~\E i \in Reqs : Dispatched(i) /\ reqs[i].ip = ip
       /\ (\E i \in Reqs : Dispatched(i)) =>
             (last_cleanup' # last_cleanup <=> now - last_cleanup >= CleanupInterval)
       /\ DOMAIN ip_requests \subseteq DOMAIN ip_requests' \/ last_cleanup' # last_cleanup
       /\ \A ip \in DOMAIN ip_requests \cap DOMAIN ip_requests' :
             IsPrefix(InWindow(ip), ValidTimestamps(ip_requests'[ip], now - WindowSize))
       /\ \A i \in Reqs : Dispatched(i) =>
             (reqs'[i].admitted <=>
                 (reqs[i].ip \notin DOMAIN ip_requests
                    \/ Len(InWindow(reqs[i].ip)) < RequestsPerMinute))]_vars

\* a sweep has removed the record of client a, whose requests are older than
\* the window, and kept the record of client b
C29_Witness ==
    /\ last_cleanup > 1
    /\ "a" \notin DOMAIN ip_requests
    /\ \E i \in Reqs : reqs[i].ip = "a" /\ reqs[i].admitted
    /\ "b" \in DOMAIN ip_requests
    /\ Len(ip_requests["b"]) = 2
    /\ ip_requests["b"][1] < last_cleanup

\* C31: the lock of a key, once created, is never destroyed or replaced by
\* get_biography or close: the key keeps the lock instance it has.
C31_LockKept ==
    [][\A k \in Keys : lockOf[k] # 0 => lockOf'[k] = lockOf[k]]_vars

\* C32: a pipeline invocation is not abandoned when the caller running it
\* gives up: once that caller's call has ended in the cancellation, the
\* result of its invocation (or of a later one) is in the cache (less than
\* the entry's lifetime has passed).
C32_NoAbandon ==
    \A p \in Procs :
        (proc[p].pc = "done" /\ proc[p].fetched /\ proc[p].out = Cancelled /\ ticks = 0) =>
            /\ store[proc[p].key].t = "entry"
            /\ store[proc[p].key].data >= proc[p].data

\* C33: the lock of a key is released on every exit path of get_biography.
\* Every call that was issued eventually returns or raises; the lock passes
\* to the waiters in the order they arrived; and a lock is held only by a
\* call in progress that took it, so it is free whenever no call for its
\* key is in progress.
InProgress(p) == proc[p].pc \notin {"idle", "done"}
HeldByCaller(i) ==
    lk[i].holder # 0 =>
        /\ InProgress(lk[i].holder)
        /\ proc[lk[i].holder].lock = i
FifoStep(i) ==
    /\ (lk'[i].holder # lk[i].holder /\ lk[i].waiters # <<>>) =>
          /\ lk'[i].holder = Head(lk[i].waiters)
          /\ lk'[i].waiters = Tail(lk[i].waiters)
    /\ \/ lk'[i].waiters = lk[i].waiters
       \/ lk[i].waiters # <<>> /\ lk'[i].waiters = Tail(lk[i].waiters)
       \/ \E p \in Procs : lk'[i].waiters = Append(lk[i].waiters, p)
    /\ \A n \in 1..Len(lk[i].waiters) : proc[lk[i].waiters[n]].pc = "wait"
C33_LockReleased ==
    /\ \A p \in Procs : InProgress(p) ~> (proc[p].pc = "done")
    /\ [](\A i \in LockIds : HeldByCaller(i))
    /\ [][\A i \in LockIds : FifoStep(i)]_vars

\* A call has returned the result another call computed while it waited on
\* the lock, a third call of the key is still queued, and nobody of another
\* key holds a lock.
C33_Witness ==
    \E p, q, r \in Procs :
        /\ proc[p].pc = "done" /\ proc[p].out.t = "ok" /\ proc[p].out.src = "computed"
        /\ proc[q].pc = "done" /\ proc[q].waited /\ proc[q].out.t = "ok"
        /\ proc[q].out.src = "cache2" /\ proc[q].key = proc[p].key
        /\ proc[r].key = proc[p].key /\ InProgress(r) /\ proc[r].waited
        /\ lk[proc[r].lock].holder = r

\* C34: on the file backend, under every interleaving of get and set on a
\* key, once set(key, v, ttl) has returned true the entry of v stays in the
\* cache until ttl elapses (no later set or delete of the key happens here):
\* no get removes it because of an expired entry it read earlier.
C34_SetSurvivesGet ==
    \A k \in Keys :
        (/\ model[k].set
         /\ model[k].ttl = NoTTL \/ now < model[k].t0 + model[k].ttl) =>
            /\ store[k].t = "entry"
            /\ store[k].data = model[k].data

\* C35: the result get_biography returns and caches has one coordinate pair
\* and one description per trajectory point of the strategy's output, in its
\* order, so both lists have the length of the trajectory; a point without
\* coordinates or without time makes the request fail with nothing cached.
C35_ListsAligned ==
    (pipeIn.t = "req" /\ pipeOut.body # NoOut) =>
        LET r == pipeOut.body
            points == pipeIn.trajectory
            n == Len(points)
            lacking == {i \in 1..n : \/ points[i].kind = "notime"
                                     \/ points[i].kind = "nocoords" /\ pipeIn.parse_mode # 1}
        IN  /\ r.out.t = "ok" =>
                  /\ r.set
                  /\ Len(r.out.coordinates) = Len(r.out.descriptions)
                  /\ DOMAIN r.out.coordinates = 1..n
                  /\ \A i \in 1..n : /\ r.out.coordinates[i] = points[i].place
                                      /\ r.out.descriptions[i] = i
            /\ lacking # {} => r.out.t = "error" /\ ~r.set

\* a result for three points at two places, the second of which got its
\* coordinates from the serial strategy
C35_Witness ==
    /\ pipeIn.t = "req"
    /\ pipeOut.body # NoOut
    /\ pipeIn.parse_mode = 1
    /\ Len(pipeIn.trajectory) = 3
    /\ pipeIn.trajectory[2].kind = "nocoords"
    /\ pipeOut.body.out.t = "ok"
    /\ pipeOut.body.out.coordinates = <<"X", "Y", "X">>
    /\ pipeOut.body.out.descriptions = <<1, 2, 3>>

\* C36: parse_mode is not part of the cache key: a call issued after a call
\* with the same (name, language, detail_level) and another parse_mode has
\* cached its result returns a cached result and runs no fetch and no
\* strategy, whatever its own parse_mode (no entry expires meanwhile).
C36_ModeNotInKey ==
    \A p \in Procs :
        (proc[p].pc = "done" /\ proc[p].cached \ {proc[p].parse_mode} # {}) =>
            /\ proc[p].out.t = "ok"
            /\ proc[p].out.src \in {"cache1", "cache2"}
            /\ ~proc[p].fetched

\* C37: a request the rate limiter rejects adds no timestamp to its client's
\* record (the record afterwards holds the timestamps that were in the window,
\* nothing else), so a request sent when the oldest recorded request of the
\* client is more than W seconds old is admitted, whatever was rejected in
\* between.
Record(ip) == IF ip \in DOMAIN ip_requests THEN ip_requests[ip] ELSE <<>>
C37_RejectedNotCounted ==
    [][\A i \in Reqs : Dispatched(i) =>
          LET old == Record(reqs[i].ip)
          IN  /\ ~reqs'[i].admitted =>
                    ip_requests'[reqs[i].ip] = ValidTimestamps(old, now - WindowSize)
              /\ (old # <<>> /\ now - old[1] > WindowSize) => reqs'[i].admitted]_vars

\* a client filled its window, was rejected, and was admitted again when its
\* oldest request was more than W seconds old
C37_Witness ==
    \E i, j, k, l \in Reqs :
        /\ i < j /\ j < k /\ k < l
        /\ \A n \in {i, j, k, l} : reqs[n].ip = "a" /\ reqs[n].checked
        /\ reqs[i].admitted /\ reqs[j].admitted
        /\ Rejected(k) /\ reqs[k].at - reqs[i].at < WindowSize
        /\ reqs[l].admitted /\ reqs[l].at - reqs[i].at > WindowSize

\* C38: the cache key is injective on requests: two requests get the same
\* key exactly when they agree in name, language and detail level.
C38_KeyInjective ==
    pipeOut.keys # NoOut =>
        (pipeOut.keys.k1 = pipeOut.keys.k2 <=> pipeIn.r1 = pipeIn.r2)

\* C39: _merge_short_paragraphs loses and reorders nothing: its chunks, one
\* after another, are the input paragraphs in their order (so joining either
\* with the separator gives the same text and every paragraph is in exactly
\* one chunk), a chunk holds one or two paragraphs, and n paragraphs give
\* between ceil(n / 2) and n chunks.
RECURSIVE Flatten(_)
Flatten(chunks) == IF chunks = <<>> THEN <<>> ELSE Head(chunks) \o Flatten(Tail(chunks))
C39_MergeLossless ==
    pipeOut.merged # NoOut =>
        LET chunks == pipeOut.merged.chunks
            n == Len(pipeIn.text)
        IN  /\ Flatten(chunks) = [i \in 1..n |-> i]
            /\ \A c \in 1..Len(chunks) : Len(chunks[c]) \in {1, 2}
            /\ 2 * Len(chunks) >= n
            /\ Len(chunks) <= n

\* five paragraphs in three chunks: a short one joined with a long one, two
\* short ones joined, and a short last paragraph on its own
C39_Witness ==
    /\ pipeIn.t = "paras"
    /\ pipeIn.text = <<"short", "long", "short", "tiny", "short">>
    /\ pipeOut.merged # NoOut
    /\ pipeOut.merged.chunks = <<(<<1, 2>>), (<<3, 4>>), (<<5>>)>>

\* C40: when CACHE_TYPE names the Redis backend and its initialization
\* raises, a get_cache_manager call that finds the singleton unset raises too
\* (no file cache is made instead), leaves the singleton unset, and the next
\* call attempts the initialization again.
RedisForcedAndBroken(env) == Lower(env.CACHE_TYPE) = "redis" /\ ~env.redis_pkg
C40_NoFallbackNoPoison ==
    \A i \in 1..Len(got) :
        (RedisForcedAndBroken(got[i].env) /\ \A j \in 1..(i - 1) : ~got[j].made) =>
            /\ got[i].ret = Raised
            /\ ~got[i].made
            /\ i = Len(got) => cache_manager = None /\ ninst = 0
            /\ i < Len(got) =>
                  IF RedisForcedAndBroken(got[i + 1].env)
                  THEN got[i + 1].ret = Raised
                  ELSE got[i + 1].made /\ got[i + 1].ret.t = "inst"

\* the first call raised under CACHE_TYPE=REDIS without the Redis package,
\* the second one raised again, the third made the manager once the
\* configuration was repaired
C40_Witness ==
    /\ Len(got) = 3
    /\ got[1].env.CACHE_TYPE = "REDIS" /\ ~got[1].env.redis_pkg /\ got[1].ret = Raised
    /\ got[2].ret = Raised
    /\ got[3].made /\ got[3].ret.t = "inst" /\ got[3].ret.id = 1
    /\ cache_manager = got[3].ret
====
